---- MODULE Spec2Model ----
(***************************************************************************)
(* AdInfinitum (src/src/main.py): the BrowserManager, the                  *)
(* AdNauseamController and the AdInfinitum orchestrator, as a state        *)
(* machine.                                                                *)
(*                                                                         *)
(* Two specifications share the variables and the method steps:            *)
(*   Spec      the program: AdInfinitum(settings).run()                    *)
(*   SpecUnit  a client that calls the public and private methods of one   *)
(*             AdInfinitum object in any order, one call at a time, as the *)
(*             unit tests do                                               *)
(*                                                                         *)
(* What the environment decides (whether Firefox boots, what a WebDriver   *)
(* call does, what a script returns, what prefs.js holds, how long a poll  *)
(* takes) is drawn with \E from small sets.  The WebDriver calls are the   *)
(* calls that may raise; pkill, mkdir, touch, sleep and logging are taken  *)
(* to return.                                                              *)
(***************************************************************************)
EXTENDS Integers, Sequences, FiniteSets, TLC

(***************************************************************************)
(* Settings and literals of the source                                     *)
(***************************************************************************)

\* Settings.page_load_timeout, default
PageLoadTimeout == 45

\* the literal the controller passes before opening a moz-extension:// page
ExtensionPageTimeout == 20

\* the page-load timeout of a freshly created WebDriver session (Selenium's
\* default, 300 s), until somebody sets one
FreshDriverTimeout == 300

\* Settings.filter_poll_timeout (validated >= 10)
FilterPollTimeout == 10

\* Settings.filter_poll_interval (validated >= 1)
FilterPollInterval == 5

\* Settings.session_restart_interval (validated >= 1)
SessionRestartInterval == 2

\* Settings.scroll_steps_min / scroll_steps_max (validated >= 1)
ScrollStepsMin == 1

ScrollStepsMax == 2

\* sessions after which the model stops starting new ones
MaxSessions == 4

\* Settings.scroll_min / scroll_max (validated >= 0), in pixels
ScrollMin == 1

ScrollMax == 2

\* browse.py RESTART_EVERY: sessions between two browser restarts
RestartEvery == 2

\* the tabs a driver of browse.py can hold; window.open() opens none beyond
MaxTabs == 3

\* the actions after which the loop of run_session() meets its deadline
MaxActions == 2

\* the longest one _get_filter_count() and the oversleeping of the sleep
\* after it may take together, in seconds
MaxPollDelay == 5

(***************************************************************************)
(* Python values: None, str, dict, int, tagged with their type so that     *)
(* isinstance and truthiness are computed, not assumed                     *)
(***************************************************************************)

PyNone == [type |-> "NoneType"]

PyStr(s) == [type |-> "str", s |-> s]

PyInt(n) == [type |-> "int", n |-> n]

PyDict(d) == [type |-> "dict", d |-> d]

PyBool(b) == [type |-> "bool", b |-> b]

PyTuple(items) == [type |-> "tuple", items |-> items]

PyList(items) == [type |-> "list", items |-> items]

\* bool(v)
Truthy(v) ==
    CASE v.type = "NoneType" -> FALSE
      [] v.type = "str" -> v.s # ""
      [] v.type = "int" -> v.n # 0
      [] v.type = "dict" -> DOMAIN v.d # {}
      [] v.type = "list" -> v.items # <<>>
      [] v.type = "bool" -> v.b

\* isinstance(v, return_type); bool is a subclass of int
IsInstance(v, return_type) ==
    v.type = return_type \/ (v.type = "bool" /\ return_type = "int")

(***************************************************************************)
(* Outcomes of one WebDriver call                                          *)
(***************************************************************************)

\* driver.set_page_load_timeout(): returns, or raises a WebDriverException
SetOutcomes == {"ok", "error"}

\* driver.get(): returns, raises TimeoutException, or raises another exception
NavOutcomes == {"ok", "timeout", "error"}

\* a log entry of one interaction with the outside; t is the page-load
\* timeout in effect on the driver when it happened
Ev(name, t) == [ev |-> name, t |-> t]

(***************************************************************************)
(* BrowserManager.  drv is the driver attribute ("None" or "Firefox"), t   *)
(* the page-load timeout in effect on the driver.  Each operator is one    *)
(* method: it yields the return value, whether an exception leaves the     *)
(* method, the timeout afterwards and the interactions it made.            *)
(***************************************************************************)

NoDriver == "None"

Firefox == "Firefox"

\* the result of a call that did not run because an earlier statement of the
\* same try block raised
Aborted(t) == [ret |-> PyNone, raised |-> TRUE, timeout |-> t, io |-> <<>>]

\* BrowserManager.set_page_load_timeout(seconds)
BrowserSetPageLoadTimeout(drv, t, seconds, out) ==
    IF drv = NoDriver
    THEN [ret |-> PyNone, raised |-> FALSE, timeout |-> t, io |-> <<>>]
    ELSE IF out = "error"
    THEN [ret |-> PyNone, raised |-> TRUE, timeout |-> t,
          io |-> <<Ev("set_page_load_timeout", t)>>]
    ELSE [ret |-> PyNone, raised |-> FALSE, timeout |-> seconds,
          io |-> <<Ev("set_page_load_timeout", seconds)>>]

\* BrowserGet catching every exception of driver.get(), not TimeoutException
\* only
BrowserGet_CatchesAll(drv, t, setOut, navOut) ==
    IF drv = NoDriver
    THEN [ret |-> FALSE, raised |-> FALSE, timeout |-> t, io |-> <<>>]
    ELSE IF setOut = "error"
    THEN [ret |-> FALSE, raised |-> TRUE, timeout |-> t,
          io |-> <<Ev("set_page_load_timeout", t)>>]
    ELSE [ret |-> navOut = "ok", raised |-> FALSE, timeout |-> PageLoadTimeout,
          io |-> <<Ev("set_page_load_timeout", PageLoadTimeout),
                   Ev("get", PageLoadTimeout)>>]

\* BrowserManager.get(url): ret is the bool it returns
BrowserGet(drv, t, setOut, navOut) ==
    IF drv = NoDriver
    THEN [ret |-> FALSE, raised |-> FALSE, timeout |-> t, io |-> <<>>]
    ELSE IF setOut = "error"
    THEN [ret |-> FALSE, raised |-> TRUE, timeout |-> t,
          io |-> <<Ev("set_page_load_timeout", t)>>]
    ELSE LET io1 == <<Ev("set_page_load_timeout", PageLoadTimeout),
                      Ev("get", PageLoadTimeout)>>
         IN  CASE navOut = "ok" ->
                    [ret |-> TRUE, raised |-> FALSE,
                     timeout |-> PageLoadTimeout, io |-> io1]
               [] navOut = "timeout" ->
                    [ret |-> FALSE, raised |-> FALSE,
                     timeout |-> PageLoadTimeout, io |-> io1]
               [] navOut = "error" ->
                    [ret |-> FALSE, raised |-> TRUE,
                     timeout |-> PageLoadTimeout, io |-> io1]

\* what driver.execute_script() does: a Python value, or an exception
ScriptRaises == [type |-> "raise"]

\* BrowserExecuteScript without the isinstance test of line 252
BrowserExecuteScript_NoTypeCheck(drv, t, return_type, raw) ==
    IF drv = NoDriver
    THEN [ret |-> PyNone, raised |-> FALSE, timeout |-> t, io |-> <<>>]
    ELSE IF raw.type = "raise"
    THEN [ret |-> PyNone, raised |-> TRUE, timeout |-> t,
          io |-> <<Ev("execute_script", t)>>]
    ELSE [ret |-> raw, raised |-> FALSE, timeout |-> t,
          io |-> <<Ev("execute_script", t)>>]

\* BrowserManager.execute_script(return_type, script)
BrowserExecuteScript(drv, t, return_type, raw) ==
    IF drv = NoDriver
    THEN [ret |-> PyNone, raised |-> FALSE, timeout |-> t, io |-> <<>>]
    ELSE IF raw.type = "raise"
    THEN [ret |-> PyNone, raised |-> TRUE, timeout |-> t,
          io |-> <<Ev("execute_script", t)>>]
    ELSE [ret |-> IF IsInstance(raw, return_type) THEN raw ELSE PyNone,
          raised |-> FALSE, timeout |-> t,
          io |-> <<Ev("execute_script", t)>>]

\* time.sleep(), as an interaction
Sleep(t) == <<Ev("sleep", t)>>

\* BrowserManager.start(): booted says whether webdriver.Firefox() and
\* install_addon() both returned
BrowserStart(booted) ==
    IF booted
    THEN [ret |-> TRUE, driver |-> Firefox, timeout |-> FreshDriverTimeout]
    ELSE [ret |-> FALSE, driver |-> NoDriver, timeout |-> FreshDriverTimeout]

\* BrowserStop without the try/except around quit()
BrowserStop_QuitPropagates(drv, t, quitOut) ==
    IF drv # NoDriver /\ quitOut = "error"
    THEN [driver |-> drv, timeout |-> t, quit |-> 1, raised |-> TRUE]
    ELSE [driver |-> NoDriver, timeout |-> FreshDriverTimeout,
          quit |-> IF drv = NoDriver THEN 0 ELSE 1, raised |-> FALSE]

\* BrowserManager.stop(): quit() is called on an attached driver, whatever it
\* raises (quitOut) is swallowed, and the attribute is cleared; quit is the
\* number of quit() calls made
BrowserStop(drv, t, quitOut) ==
    IF drv = NoDriver
    THEN [driver |-> NoDriver, timeout |-> FreshDriverTimeout, quit |-> 0,
          raised |-> FALSE]
    ELSE [driver |-> NoDriver, timeout |-> FreshDriverTimeout, quit |-> 1,
          raised |-> FALSE]

\* BrowserManager.restart(): stop(), then start()
BrowserRestart(drv, t, quitOut, booted) ==
    LET s == BrowserStop(drv, t, quitOut)
        b == BrowserStart(booted)
    IN  IF s.raised
        THEN [ret |-> FALSE, driver |-> s.driver, timeout |-> s.timeout,
              quit |-> s.quit, raised |-> TRUE]
        ELSE [ret |-> b.ret, driver |-> b.driver, timeout |-> b.timeout,
              quit |-> s.quit, raised |-> FALSE]

(***************************************************************************)
(* AdNauseamController.  u is _uuid (PyNone or a PyStr), act is            *)
(* _activated, fr is _filters_ready.                                       *)
(***************************************************************************)

\* Ready without the filter flag
Ready_IgnoresFilters(u, act, fr) == Truthy(u) /\ act

\* AdNauseamController.ready
Ready(u, act, fr) == Truthy(u) /\ act /\ fr

\* what _uuid_from_prefs() can return: uuid_map.get(EXTENSION_ID), or None
\* when prefs.js is missing, has no such pref, or does not parse
PrefsValues == {PyNone, PyStr(""), PyStr("uuid-prefs")}

\* what the about:debugging script can hand to execute_script
DebuggerScriptValues ==
    {PyNone, PyStr(""), PyStr("uuid-debugger"), PyInt(7), ScriptRaises}

\* AdNauseamController._uuid_from_debugger(): every exception becomes None
UuidFromDebugger(drv, t, e) ==
    LET g  == BrowserGet(drv, t, e.set2, e.nav)
        sc == IF g.raised THEN Aborted(g.timeout)
              ELSE BrowserExecuteScript(drv, g.timeout, "str", e.script)
        io == g.io \o (IF g.raised THEN <<>> ELSE Sleep(g.timeout)) \o sc.io
    IN  [ret |-> IF sc.raised THEN PyNone ELSE sc.ret,
         timeout |-> sc.timeout, io |-> io]

\* DiscoverUuid with the lookups of lines 395 and 400 in the other order
DiscoverUuid_DebuggerFirst(u, drv, t, e) ==
    IF Truthy(u)
    THEN [ret |-> TRUE, uuid |-> u, timeout |-> t, io |-> <<>>]
    ELSE LET d == UuidFromDebugger(drv, t, e)
         IN  IF Truthy(d.ret)
             THEN [ret |-> TRUE, uuid |-> d.ret, timeout |-> d.timeout,
                   io |-> d.io]
             ELSE [ret |-> Truthy(e.prefs), uuid |-> e.prefs,
                   timeout |-> d.timeout,
                   io |-> d.io \o <<Ev("read_prefs", d.timeout)>>]

\* DiscoverUuid without the test of line 392
DiscoverUuid_AlwaysLooksUp(u, drv, t, e) ==
    IF Truthy(e.prefs)
    THEN [ret |-> TRUE, uuid |-> e.prefs, timeout |-> t,
          io |-> <<Ev("read_prefs", t)>>]
    ELSE LET d == UuidFromDebugger(drv, t, e)
         IN  [ret |-> Truthy(d.ret), uuid |-> d.ret, timeout |-> d.timeout,
              io |-> <<Ev("read_prefs", t)>> \o d.io]

\* AdNauseamController.discover_uuid(); e.prefs is what prefs.js yields
DiscoverUuid(u, drv, t, e) ==
    IF Truthy(u)
    THEN [ret |-> TRUE, uuid |-> u, timeout |-> t, io |-> <<>>]
    ELSE IF Truthy(e.prefs)
    THEN [ret |-> TRUE, uuid |-> e.prefs, timeout |-> t,
          io |-> <<Ev("read_prefs", t)>>]
    ELSE LET d == UuidFromDebugger(drv, t, e)
         IN  [ret |-> Truthy(d.ret), uuid |-> d.ret, timeout |-> d.timeout,
              io |-> <<Ev("read_prefs", t)>> \o d.io]

\* the three checkboxes of options.html
CoreSettings == {"hidingAds", "clickingAds", "blockingMalware"}

\* what the options-page script can hand to execute_script
ActivateScriptValues ==
    {PyDict([s \in CoreSettings |-> "already on"]),
     PyDict([s \in CoreSettings |->
                IF s = "clickingAds" THEN "activated" ELSE "already on"]),
     PyDict([s \in CoreSettings |->
                IF s = "hidingAds" THEN "not found" ELSE "activated"]),
     PyDict([s \in {"error"} |-> "no iframe found"]),
     PyNone, PyStr("ok"), ScriptRaises}

\* ActivateSkips without the test of _uuid
ActivateSkips_OnlyWhenActivated(u, act) == act

\* ActivateSkips without the test of _activated
ActivateSkips_OnlyWithoutUuid(u, act) == ~Truthy(u)

\* line 420: nothing to do, or nothing to do it with
ActivateSkips(u, act) == act \/ ~Truthy(u)

\* AdNauseamController.activate()
Activate(u, act, drv, t, e) ==
    IF ActivateSkips(u, act)
    THEN [ret |-> act, raised |-> FALSE, activated |-> act, timeout |-> t,
          io |-> <<>>]
    ELSE LET s1 == BrowserSetPageLoadTimeout(drv, t, ExtensionPageTimeout, e.set1)
             g  == IF s1.raised THEN Aborted(s1.timeout)
                   ELSE BrowserGet(drv, s1.timeout, e.set2, e.nav)
             sc == IF g.raised THEN Aborted(g.timeout)
                   ELSE BrowserExecuteScript(drv, g.timeout, "dict", e.script)
             result == sc.ret
             act2 == IF ~sc.raised /\ result.type # "NoneType"
                           /\ "error" \notin DOMAIN result.d
                     THEN TRUE ELSE act
             \* finally:
             s3 == BrowserSetPageLoadTimeout(drv, sc.timeout, PageLoadTimeout, e.set3)
             io == s1.io \o g.io \o (IF g.raised THEN <<>> ELSE Sleep(g.timeout))
                     \o sc.io \o s3.io
         IN  [ret |-> act2, raised |-> s3.raised, activated |-> act2,
              timeout |-> s3.timeout, io |-> io]

(***************************************************************************)
(* Filter readiness.  The text of #listsOfBlockedHostsPrompt is matched    *)
(* against ([\d,]+)\s+network filters, character by character.             *)
(***************************************************************************)

\* the characters of the strings the filter page is modelled to show
Chars(s) ==
    CASE s = "" -> <<>>
      [] s = "loading" ->
           <<"l", "o", "a", "d", "i", "n", "g">>
      [] s = "0 network filters" ->
           <<"0", " ", "n", "e", "t", "w", "o", "r", "k", " ", "f", "i", "l", "t", "e", "r", "s">>
      [] s = "1,234 network filters" ->
           <<"1", ",", "2", "3", "4", " ", "n", "e", "t", "w", "o", "r", "k", " ", "f", "i", "l", "t", "e", "r", "s">>
      [] s = ", network filters" ->
           <<",", " ", "n", "e", "t", "w", "o", "r", "k", " ", "f", "i", "l", "t", "e", "r", "s">>
      [] s = "56 network filters from:" ->
           <<"5", "6", " ", "n", "e", "t", "w", "o", "r", "k", " ", "f", "i", "l", "t", "e", "r", "s", " ", "f", "r", "o", "m", ":">>

DigitValue ==
    [c \in {"0", "1", "2", "3", "4", "5", "6", "7", "8", "9"} |->
        CASE c = "0" -> 0 [] c = "1" -> 1 [] c = "2" -> 2 [] c = "3" -> 3
          [] c = "4" -> 4 [] c = "5" -> 5 [] c = "6" -> 6 [] c = "7" -> 7
          [] c = "8" -> 8 [] c = "9" -> 9]

\* the literal tail of the pattern
NetworkFiltersLiteral ==
    <<"n", "e", "t", "w", "o", "r", "k", " ", "f", "i", "l", "t", "e", "r", "s">>

\* the first index >= i of cs whose character is not in class (Len(cs)+1 if none)
RECURSIVE RunEnd(_, _, _)
RunEnd(cs, i, class) ==
    IF i > Len(cs) \/ cs[i] \notin class THEN i ELSE RunEnd(cs, i + 1, class)

\* does the pattern match with its group starting at i?
PatternMatchesAt(cs, i) ==
    LET j == RunEnd(cs, i, DOMAIN DigitValue \cup {","})
        k == RunEnd(cs, j, {" "})
    IN  /\ j > i
        /\ k > j
        /\ k + Len(NetworkFiltersLiteral) - 1 <= Len(cs)
        /\ SubSeq(cs, k, k + Len(NetworkFiltersLiteral) - 1) = NetworkFiltersLiteral

\* int(<digits>) of the characters of cs that are digits, left to right
RECURSIVE DecimalValue(_, _)
DecimalValue(cs, acc) ==
    IF cs = <<>> THEN acc
    ELSE IF Head(cs) = "," THEN DecimalValue(Tail(cs), acc)
    ELSE DecimalValue(Tail(cs), 10 * acc + DigitValue[Head(cs)])

\* re.search(...) on text, then int(match.group(1).replace(",", "")): the
\* count, 0 when nothing matches; raised when int() gets no digit at all
ParseFilterCount(text) ==
    LET cs == Chars(text)
        starts == {i \in 1..Len(cs) : PatternMatchesAt(cs, i)}
    IN  IF starts = {} THEN [ret |-> 0, raised |-> FALSE]
        ELSE LET i == CHOOSE x \in starts : \A y \in starts : x <= y
                 j == RunEnd(cs, i, DOMAIN DigitValue \cup {","})
                 group == SubSeq(cs, i, j - 1)
             IN  IF \A n \in 1..Len(group) : group[n] = ","
                 THEN [ret |-> 0, raised |-> TRUE]
                 ELSE [ret |-> DecimalValue(group, 0), raised |-> FALSE]

\* what the filter-page script can hand to execute_script
FilterScriptValues ==
    {PyNone, PyStr(""), PyStr("loading"), PyStr("0 network filters"),
     PyStr("1,234 network filters"), PyStr(", network filters"),
     PyStr("56 network filters from:"), PyInt(3), ScriptRaises}

\* AdNauseamController._get_filter_count()
GetFilterCount(drv, t, e) ==
    LET s1 == BrowserSetPageLoadTimeout(drv, t, ExtensionPageTimeout, e.set1)
        g  == IF s1.raised THEN Aborted(s1.timeout)
              ELSE BrowserGet(drv, s1.timeout, e.set2, e.nav)
        sc == IF g.raised THEN Aborted(g.timeout)
              ELSE BrowserExecuteScript(drv, g.timeout, "str", e.script)
        text == sc.ret
        parsed == IF ~sc.raised /\ Truthy(text) THEN ParseFilterCount(text.s)
                  ELSE [ret |-> 0, raised |-> FALSE]
        \* finally:
        s3 == BrowserSetPageLoadTimeout(drv, sc.timeout, PageLoadTimeout, e.set3)
        io == s1.io \o g.io \o (IF g.raised THEN <<>> ELSE Sleep(g.timeout))
                \o sc.io \o s3.io
    IN  [ret |-> IF parsed.raised THEN 0 ELSE parsed.ret,
         raised |-> s3.raised, timeout |-> s3.timeout, io |-> io]

(***************************************************************************)
(* Vault statistics                                                         *)
(***************************************************************************)

\* the tuple scrape_vault() falls back to
VaultPlaceholders == <<PyStr("clicked ?"), PyStr("? ads collected"), PyStr("?")>>

\* dict.get(k)
DictGet(d, k) == IF k \in DOMAIN d THEN d[k] ELSE PyNone

\* x or y
PyOr(x, y) == IF Truthy(x) THEN x ELSE y

\* what the vault script can hand to execute_script
VaultScriptValues ==
    {PyDict([k \in {"clicked", "collected", "showing"} |->
                CASE k = "clicked" -> PyStr("clicked 5")
                  [] k = "collected" -> PyStr("12 ads collected")
                  [] k = "showing" -> PyStr("3")]),
     PyDict([k \in {"clicked", "collected", "showing"} |->
                CASE k = "clicked" -> PyNone
                  [] k = "collected" -> PyStr("12 ads collected")
                  [] k = "showing" -> PyStr("")]),
     PyDict([k \in {"clicked"} |-> PyStr("clicked 5")]),
     PyNone, PyStr("clicked 5"), ScriptRaises}

\* ScrapeVaultSkips testing _uuid against None only
ScrapeVaultSkips_OnlyNone(u) == u.type = "NoneType"

\* line 550: no UUID, no vault URL
ScrapeVaultSkips(u) == ~Truthy(u)

\* AdNauseamController.scrape_vault()
ScrapeVault(u, drv, t, e) ==
    IF ScrapeVaultSkips(u)
    THEN [ret |-> VaultPlaceholders, raised |-> FALSE, timeout |-> t, io |-> <<>>]
    ELSE LET s1 == BrowserSetPageLoadTimeout(drv, t, ExtensionPageTimeout, e.set1)
             g  == IF s1.raised THEN Aborted(s1.timeout)
                   ELSE BrowserGet(drv, s1.timeout, e.set2, e.nav)
             sc == IF g.raised THEN Aborted(g.timeout)
                   ELSE BrowserExecuteScript(drv, g.timeout, "dict", e.script)
             stats == sc.ret
             value == IF sc.raised \/ stats.type = "NoneType"
                      THEN VaultPlaceholders
                      ELSE <<PyOr(DictGet(stats.d, "clicked"), VaultPlaceholders[1]),
                             PyOr(DictGet(stats.d, "collected"), VaultPlaceholders[2]),
                             PyOr(DictGet(stats.d, "showing"), VaultPlaceholders[3])>>
             \* finally:
             s3 == BrowserSetPageLoadTimeout(drv, sc.timeout, PageLoadTimeout, e.set3)
             io == s1.io \o g.io \o (IF g.raised THEN <<>> ELSE Sleep(g.timeout))
                     \o sc.io \o s3.io
         IN  [ret |-> value, raised |-> s3.raised, timeout |-> s3.timeout,
              io |-> io]

(***************************************************************************)
(* AdInfinitum._browse                                                      *)
(***************************************************************************)

\* the settings _browse() reads
ScrollSettings ==
    [scroll_steps_min |-> ScrollStepsMin, scroll_steps_max |-> ScrollStepsMax,
     scroll_min |-> ScrollMin, scroll_max |-> ScrollMax]

\* the scroll settings validation accepts (Field(ge=1), Field(ge=0)), up to
\* those of the model
ValidatedScrollSettings ==
    [scroll_steps_min : 1..ScrollStepsMax, scroll_steps_max : 1..ScrollStepsMax,
     scroll_min : 0..ScrollMax, scroll_max : 0..ScrollMax]

\* random.randint(a, b): what it can return; none when a > b, where it raises
\* ValueError
RandInt(a, b) == a..b

\* the interaction of the scroll script: execute_script with window.scrollBy(0, px)
ScrollEv(px, t) == [ev |-> "execute_script", t |-> t, scrollBy |-> px]

\* the scroll loop from step j on: randint, execute_script, sleep, heartbeat;
\* e.scroll[j] is the distance of step j, and the e.failAt-th execute_script
\* raises (0: none does)
RECURSIVE ScrollSteps(_, _, _, _, _)
ScrollSteps(drv, t, j, cfg, e) ==
    IF j > e.steps THEN [raised |-> FALSE, io |-> <<>>]
    ELSE IF RandInt(cfg.scroll_min, cfg.scroll_max) = {}
    THEN [raised |-> TRUE, io |-> <<>>]
    ELSE LET sc == BrowserExecuteScript(drv, t, "str",
                       IF j = e.failAt THEN ScriptRaises ELSE PyNone)
             ev == IF sc.io = <<>> THEN <<>> ELSE <<ScrollEv(e.scroll[j], t)>>
         IN  IF sc.raised THEN [raised |-> TRUE, io |-> ev]
             ELSE LET rest == ScrollSteps(drv, t, j + 1, cfg, e)
                  IN  [raised |-> rest.raised,
                       io |-> ev \o Sleep(t) \o <<Ev("heartbeat", t)>> \o rest.io]

\* AdInfinitum._browse(url) under the scroll settings cfg: e.steps is the
\* random.randint() of the scroll steps
Browse(drv, t, cfg, e) ==
    LET g == BrowserGet(drv, t, e.set2, e.nav)
    IN  IF g.raised
        THEN [raised |-> TRUE, timeout |-> g.timeout, io |-> g.io]
        ELSE IF RandInt(cfg.scroll_steps_min, cfg.scroll_steps_max) = {}
        THEN [raised |-> TRUE, timeout |-> g.timeout,
              io |-> g.io \o <<Ev("heartbeat", g.timeout)>>]
        ELSE LET sc == ScrollSteps(drv, g.timeout, 1, cfg, e)
             IN  [raised |-> sc.raised, timeout |-> g.timeout,
                  io |-> g.io \o <<Ev("heartbeat", g.timeout)>> \o sc.io]

(***************************************************************************)
(* State                                                                    *)
(***************************************************************************)

VARIABLES
    pc,             \* the statement the thread is at
    stack,          \* the statements to return to, innermost first
    driver,         \* BrowserManager.driver
    driverTimeout,  \* the page-load timeout in effect on the driver
    uuid,           \* AdNauseamController._uuid
    activated,      \* AdNauseamController._activated
    filters_ready,  \* AdNauseamController._filters_ready
    session_count,  \* AdInfinitum.session_count
    seed_urls,      \* AdInfinitum.seed_urls
    exitStatus,     \* the status the process exited with, None while it runs
    ret,            \* what the method that returned last returned
    raised,         \* an exception has left a method and is being handled
    calls,          \* the methods entered since the session (the client's call) began
    io,             \* the interactions of the method that ran last
    clock,          \* wait_for_filters: seconds since it computed its deadline
    setups,         \* _setup() calls since the browser was last (re)started, 2 for more
    mainDriver,     \* browse.py main(): its local driver, 0 for None, else the
                    \* ordinal of the driver build_driver() built
    quits,          \* browse.py: quits[k] counts the quit() calls on the k-th driver
    window_handles, \* browse.py: driver.window_handles, the open tabs in order
    current_window_handle,  \* browse.py: the tab the driver is focused on
    action_count    \* browse.py run_session(): its local action_count

vars == <<pc, stack, driver, driverTimeout, uuid, activated, filters_ready,
          session_count, seed_urls, exitStatus, ret, raised, calls, io, clock,
          setups, mainDriver, quits, window_handles, current_window_handle,
          action_count>>

browserVars == <<driver, driverTimeout>>

controllerVars == <<uuid, activated, filters_ready>>

\* the state of browse.py, which main.py never touches
browseVars == <<mainDriver, quits, window_handles, current_window_handle,
                action_count>>

\* the state of main.py's objects, which browse.py never touches
mainPyVars == <<driver, driverTimeout, uuid, activated, filters_ready,
                seed_urls, clock, setups>>

\* no tab: the focused tab was closed, or there is no driver
NoWindow == 0

\* browse.py is not running
BrowseIdle ==
    /\ mainDriver = 0
    /\ quits = <<>>
    /\ window_handles = <<>>
    /\ current_window_handle = NoWindow
    /\ action_count = 0

\* urls.json: absent, present but unreadable (read_text() raises), or a text
UrlsFiles ==
    {[kind |-> "absent"], [kind |-> "unreadable"]} \cup
    {[kind |-> "text", text |-> x] :
        x \in {"[]", "null", "not valid json{{",
               "[\"https://a.example\", \"https://b.example\"]"}}

\* json.loads() of the texts urls.json is modelled to hold
JsonLoads(text) ==
    CASE text = "[]" -> [raised |-> FALSE, value |-> PyList(<<>>)]
      [] text = "null" -> [raised |-> FALSE, value |-> PyNone]
      [] text = "[\"https://a.example\", \"https://b.example\"]" ->
           [raised |-> FALSE,
            value |-> PyList(<<"https://a.example", "https://b.example">>)]
      [] OTHER -> [raised |-> TRUE, value |-> PyNone]

\* Settings.default_urls, which nothing forbids to be empty
DefaultUrlLists == {<<>>, <<"https://www.yahoo.com">>}

\* LoadUrls without the test of line 626
LoadUrls_KeepsEmptyList(file, default_urls) ==
    IF file.kind # "text"
    THEN [ret |-> default_urls, raised |-> FALSE]
    ELSE LET urls == JsonLoads(file.text)
         IN  IF ~urls.raised /\ urls.value.type = "list"
             THEN [ret |-> urls.value.items, raised |-> FALSE]
             ELSE [ret |-> default_urls, raised |-> FALSE]

\* AdInfinitum._load_urls(): every exception of the try block is caught
LoadUrls(file, default_urls) ==
    IF file.kind # "text"
    THEN [ret |-> default_urls, raised |-> FALSE]
    ELSE LET urls == JsonLoads(file.text)
         IN  IF ~urls.raised /\ Truthy(urls.value)
             THEN [ret |-> urls.value.items, raised |-> FALSE]
             ELSE [ret |-> default_urls, raised |-> FALSE]

\* AdInfinitum.seed_urls after _load_urls()
SeedUrlLists ==
    {LoadUrls(file, default_urls).ret :
        file \in UrlsFiles, default_urls \in DefaultUrlLists}

\* the state AdInfinitum.__init__ leaves
Constructed ==
    /\ stack = <<>>
    /\ driver = NoDriver
    /\ driverTimeout = FreshDriverTimeout
    /\ uuid = PyNone
    /\ activated = FALSE
    /\ filters_ready = FALSE
    /\ session_count = 0
    /\ seed_urls \in SeedUrlLists
    /\ exitStatus = PyNone
    /\ ret = PyNone
    /\ raised = FALSE
    /\ calls = <<>>
    /\ io = <<>>
    /\ clock = 0
    /\ setups = 0
    /\ BrowseIdle

\* the program: AdInfinitum(settings).run()
Init == pc = "run" /\ Constructed

\* the client of SpecUnit, between two calls
InitUnit == pc = "idle" /\ Constructed

(***************************************************************************)
(* Calling, returning and raising                                           *)
(***************************************************************************)

\* the call is one the client of SpecUnit made (the bottom of the stack is the
\* client), not one made under run()
UnderClient == stack # <<>> /\ stack[Len(stack)] = "idle"

\* call method m and come back at retpc
Call(m, retpc) ==
    /\ pc' = m
    /\ stack' = <<retpc>> \o stack

\* return v to the caller
Return(v) ==
    /\ pc' = Head(stack)
    /\ stack' = Tail(stack)
    /\ ret' = v

\* an exception leaves the running method: under run() the try block of the
\* loop catches it (main.py:739); under a client it reaches the client
Raise ==
    /\ pc' = IF UnderClient THEN "idle" ELSE "run:741"
    /\ stack' = <<>>
    /\ raised' = TRUE
    /\ ret' = PyNone

\* return v, or raise
ReturnOrRaise(r, v) ==
    IF r THEN Raise ELSE Return(v) /\ UNCHANGED raised

(***************************************************************************)
(* What the environment decides during one controller method               *)
(***************************************************************************)

\* a call that is never reached, because an earlier one raised, is given one
\* outcome only: the environment decides nothing there
Reached(e) ==
    /\ e.set1 = "error" => e.set2 = "ok"
    /\ (e.set1 = "error" \/ e.set2 = "error") => e.nav = "ok"
    /\ (e.set1 = "error" \/ e.set2 = "error" \/ e.nav = "error")
           => e.script = PyNone

DriverEnv(scriptValues) ==
    {e \in [set1 : SetOutcomes, set2 : SetOutcomes, nav : NavOutcomes,
            script : scriptValues, set3 : SetOutcomes] : Reached(e)}

ActivateEnv == DriverEnv(ActivateScriptValues)

FilterEnv == DriverEnv(FilterScriptValues)

VaultEnv == DriverEnv(VaultScriptValues)

DiscoverEnv ==
    {e \in [prefs : PrefsValues, set1 : {"ok"}, set2 : SetOutcomes,
            nav : NavOutcomes, script : DebuggerScriptValues] :
        /\ Reached(e)
        /\ Truthy(e.prefs) => (e.set2 = "ok" /\ e.nav = "ok" /\ e.script = PyNone)}

\* the least element of a non-empty set of numbers
Least(S) == CHOOSE x \in S : \A y \in S : x <= y

\* what random.randint() can return for the scroll steps and for a distance
\* under cfg; where it raises, the choice left is one that is never used
StepsChoices(cfg) ==
    IF RandInt(cfg.scroll_steps_min, cfg.scroll_steps_max) = {} THEN {0}
    ELSE RandInt(cfg.scroll_steps_min, cfg.scroll_steps_max)

DistanceChoices(cfg) ==
    IF RandInt(cfg.scroll_min, cfg.scroll_max) = {} THEN {0}
    ELSE RandInt(cfg.scroll_min, cfg.scroll_max)

\* what the environment decides during one _browse() under cfg; a call that
\* is never reached is given one outcome only
BrowseEnvOf(cfg) ==
    {e \in UNION {[set2 : SetOutcomes, nav : NavOutcomes, steps : {k},
                   failAt : 0..k, scroll : [1..k -> DistanceChoices(cfg)]] :
                      k \in StepsChoices(cfg)} :
        /\ e.set2 = "error" => e.nav = "ok"
        /\ (e.set2 = "error" \/ e.nav = "error") =>
              (e.failAt = 0 /\ e.steps = Least(StepsChoices(cfg)))
        /\ RandInt(cfg.scroll_min, cfg.scroll_max) = {} => e.failAt = 0
        /\ \A j \in 1..e.steps :
              (e.set2 = "error" \/ e.nav = "error"
                 \/ (e.failAt > 0 /\ j > e.failAt))
                => e.scroll[j] = Least(DistanceChoices(cfg))}

BrowseEnv == BrowseEnvOf(ScrollSettings)

(***************************************************************************)
(* The methods that call no other modelled method: one step each           *)
(***************************************************************************)

\* BrowserManager.start()
StepBrowserStart ==
    /\ pc = "browser.start"
    /\ \E booted \in BOOLEAN :
         LET r == BrowserStart(booted)
         IN  /\ driver' = r.driver
             /\ driverTimeout' = r.timeout
             /\ Return(PyBool(r.ret))
    /\ calls' = Append(calls, "browser.start")
    /\ io' = <<>>
    /\ UNCHANGED <<controllerVars, session_count, seed_urls, exitStatus,
                   raised, clock>>
    /\ setups' = 0
    /\ UNCHANGED browseVars

\* what quit() can do on driver drv: with no driver it is not called
QuitOutcomes(drv) == IF drv = NoDriver THEN {"ok"} ELSE SetOutcomes

\* BrowserManager.stop()
StepBrowserStop ==
    /\ pc = "browser.stop"
    /\ \E quitOut \in QuitOutcomes(driver) :
         LET r == BrowserStop(driver, driverTimeout, quitOut)
         IN  /\ driver' = r.driver
             /\ driverTimeout' = r.timeout
             /\ io' = IF r.quit = 1 THEN <<Ev("quit", driverTimeout)>> ELSE <<>>
             /\ ReturnOrRaise(r.raised, PyNone)
    /\ calls' = Append(calls, "browser.stop")
    /\ UNCHANGED <<controllerVars, session_count, seed_urls, exitStatus,
                   clock,
                   setups, browseVars>>

\* BrowserManager.restart()
StepBrowserRestart ==
    /\ pc = "browser.restart"
    /\ \E quitOut \in QuitOutcomes(driver), booted \in BOOLEAN :
         LET r == BrowserRestart(driver, driverTimeout, quitOut, booted)
         IN  /\ driver' = r.driver
             /\ driverTimeout' = r.timeout
             /\ io' = IF r.quit = 1 THEN <<Ev("quit", driverTimeout)>> ELSE <<>>
             /\ ReturnOrRaise(r.raised, PyBool(r.ret))
    /\ calls' = Append(calls, "browser.restart")
    /\ UNCHANGED <<controllerVars, session_count, seed_urls, exitStatus,
                   clock>>
    /\ setups' = 0
    /\ UNCHANGED browseVars

\* what set_page_load_timeout() and driver.get() can do in one get(): a call
\* that is not reached is given one outcome only
GetEnv ==
    {e \in [set2 : SetOutcomes, nav : NavOutcomes] :
        e.set2 = "error" => e.nav = "ok"}

\* BrowserManager.get(url)
StepBrowserGet ==
    /\ pc = "browser.get"
    /\ \E e \in GetEnv :
         LET r == BrowserGet(driver, driverTimeout, e.set2, e.nav)
         IN  /\ driverTimeout' = r.timeout
             /\ io' = r.io
             /\ ReturnOrRaise(r.raised, PyBool(r.ret))
    /\ calls' = Append(calls, "browser.get")
    /\ UNCHANGED <<driver, controllerVars, session_count, seed_urls,
                   exitStatus, clock,
                   setups, browseVars>>

\* the types a caller can pass as return_type
ReturnTypes == {"str", "dict", "int"}

\* what a script can hand to execute_script
AnyScriptValues ==
    {PyNone, PyStr(""), PyStr("title"), PyInt(7), PyBool(TRUE),
     PyDict([k \in {"a"} |-> 1]), ScriptRaises}

\* BrowserManager.execute_script(return_type, script)
StepBrowserExecuteScript ==
    /\ pc = "browser.execute_script"
    /\ \E return_type \in ReturnTypes, raw \in AnyScriptValues :
         LET r == BrowserExecuteScript(driver, driverTimeout, return_type, raw)
         IN  /\ io' = r.io
             /\ ReturnOrRaise(r.raised, r.ret)
    /\ calls' = Append(calls, "browser.execute_script")
    /\ UNCHANGED <<browserVars, controllerVars, session_count, seed_urls,
                   exitStatus, clock,
                   setups, browseVars>>

\* Reset with line 309 left out
Reset_KeepsActivated ==
    [uuid |-> PyNone, activated |-> activated, filters_ready |-> FALSE]

\* AdNauseamController.reset()
Reset ==
    [uuid |-> PyNone, activated |-> FALSE, filters_ready |-> FALSE]

StepReset ==
    /\ pc = "controller.reset"
    /\ uuid' = Reset.uuid
    /\ activated' = Reset.activated
    /\ filters_ready' = Reset.filters_ready
    /\ Return(PyNone)
    /\ calls' = Append(calls, "controller.reset")
    /\ io' = <<>>
    /\ UNCHANGED <<browserVars, session_count, seed_urls, exitStatus, raised,
                   clock,
                   setups, browseVars>>

\* AdNauseamController.discover_uuid()
StepDiscoverUuid ==
    /\ pc = "discover_uuid"
    /\ \E e \in DiscoverEnv :
         LET r == DiscoverUuid(uuid, driver, driverTimeout, e)
         IN  /\ uuid' = r.uuid
             /\ driverTimeout' = r.timeout
             /\ io' = r.io
             /\ Return(PyBool(r.ret))
    /\ calls' = Append(calls, "discover_uuid")
    /\ UNCHANGED <<driver, activated, filters_ready, session_count, seed_urls,
                   exitStatus, raised, clock,
                   setups, browseVars>>

\* AdNauseamController.activate()
StepActivate ==
    /\ pc = "activate"
    /\ \E e \in ActivateEnv :
         LET r == Activate(uuid, activated, driver, driverTimeout, e)
         IN  /\ activated' = r.activated
             /\ driverTimeout' = r.timeout
             /\ io' = r.io
             /\ ReturnOrRaise(r.raised, PyBool(r.ret))
    /\ calls' = Append(calls, "activate")
    /\ UNCHANGED <<driver, uuid, filters_ready, session_count, seed_urls,
                   exitStatus, clock,
                   setups, browseVars>>

\* AdNauseamController.scrape_vault()
StepScrapeVault ==
    /\ pc = "scrape_vault"
    /\ \E e \in VaultEnv :
         LET r == ScrapeVault(uuid, driver, driverTimeout, e)
         IN  /\ driverTimeout' = r.timeout
             /\ io' = r.io
             /\ ReturnOrRaise(r.raised, PyTuple(r.ret))
    /\ calls' = Append(calls, "scrape_vault")
    /\ UNCHANGED <<driver, controllerVars, session_count, seed_urls,
                   exitStatus, clock,
                   setups, browseVars>>

\* AdInfinitum._browse(url)
StepBrowse ==
    /\ pc = "_browse"
    /\ \E e \in BrowseEnv :
         LET r == Browse(driver, driverTimeout, ScrollSettings, e)
         IN  /\ driverTimeout' = r.timeout
             /\ io' = r.io
             /\ ReturnOrRaise(r.raised, PyNone)
    /\ calls' = Append(calls, "_browse")
    /\ UNCHANGED <<driver, controllerVars, session_count, seed_urls,
                   exitStatus, clock,
                   setups, browseVars>>

(***************************************************************************)
(* AdNauseamController.wait_for_filters(): the polling loop                 *)
(***************************************************************************)

\* the clock never needs to be known beyond the deadline
Advance(c, d) == IF c + d >= FilterPollTimeout THEN FilterPollTimeout ELSE c + d

\* WaitForFiltersSkips without the test of _uuid
WaitForFiltersSkips_OnlyWhenReady(u, fr) == fr

\* line 513: nothing to wait for, or nothing to ask
WaitForFiltersSkips(u, fr) == fr \/ ~Truthy(u)

\* lines 513-517: the guard, then deadline = time.time() + filter_poll_timeout
StepWaitForFilters ==
    /\ pc = "wait_for_filters"
    /\ calls' = Append(calls, "wait_for_filters")
    /\ io' = <<>>
    /\ clock' = 0
    /\ IF WaitForFiltersSkips(uuid, filters_ready)
       THEN Return(PyBool(filters_ready))
       ELSE pc' = "wait_loop" /\ UNCHANGED <<stack, ret>>
    /\ UNCHANGED <<browserVars, controllerVars, session_count, seed_urls,
                   exitStatus, raised,
                   setups, browseVars>>

\* BeforeDeadline polling once more at the deadline itself
BeforeDeadline_Inclusive(c) == c <= FilterPollTimeout

\* line 518: time.time() < deadline, c seconds after the deadline was computed
BeforeDeadline(c) == c < FilterPollTimeout

\* lines 518-519 and 529-532: one test of the deadline; before it one poll,
\* whose count is what _get_filter_count() returns, at it return False
StepWaitLoop ==
    /\ pc = "wait_loop"
    /\ IF BeforeDeadline(clock)
       THEN \E e \in FilterEnv :
              LET r == GetFilterCount(driver, driverTimeout, e)
              IN  /\ driverTimeout' = r.timeout
                  /\ io' = r.io
                  /\ calls' = Append(calls, "_get_filter_count")
                  /\ IF r.raised
                     THEN Raise
                     ELSE /\ pc' = "wait_loop:520"
                          /\ ret' = PyInt(r.ret)
                          /\ UNCHANGED <<stack, raised>>
       ELSE /\ Return(PyBool(FALSE))
            /\ UNCHANGED <<driverTimeout, io, calls, raised>>
    /\ clock' = IF pc' = "wait_loop:520" THEN clock ELSE 0
    /\ UNCHANGED <<driver, controllerVars, session_count, seed_urls,
                   exitStatus,
                   setups, browseVars>>

\* FiltersLoaded taking a count of 0 for loaded
FiltersLoaded_ZeroCounts(count) == count >= 0

\* line 520
FiltersLoaded(count) == count > 0

\* lines 520-528: with a count above 0 set _filters_ready and return True;
\* else sleep: the sleep takes filter_poll_interval, and the poll before it
\* and the oversleeping together d more
StepWaitPolled ==
    /\ pc = "wait_loop:520"
    /\ IF FiltersLoaded(ret.n)
       THEN /\ filters_ready' = TRUE
            /\ clock' = 0
            /\ Return(PyBool(TRUE))
       ELSE /\ \E d \in 0..MaxPollDelay :
                 clock' = Advance(clock, FilterPollInterval + d)
            /\ pc' = "wait_loop"
            /\ UNCHANGED <<stack, ret, filters_ready>>
    /\ UNCHANGED <<browserVars, uuid, activated, session_count, seed_urls,
                   exitStatus, raised, calls, io,
                   setups, browseVars>>

(***************************************************************************)
(* AdInfinitum._setup() and AdInfinitum._restart()                          *)
(***************************************************************************)

\* SetupAfterDiscover with the result of discover_uuid() ignored
SetupAfterDiscover_Ignored(found) == "activate"

\* where _setup() goes once discover_uuid() has returned found
SetupAfterDiscover(found) == IF found THEN "activate" ELSE "return"

\* line 693: call discover_uuid()
StepSetup ==
    /\ pc = "_setup"
    /\ Call("discover_uuid", "_setup:694")
    /\ calls' = Append(calls, "_setup")
    /\ UNCHANGED <<browserVars, controllerVars, session_count, seed_urls,
                   exitStatus, ret, raised, io, clock>>
    /\ setups' = IF setups < 2 THEN setups + 1 ELSE 2
    /\ UNCHANGED browseVars

\* lines 693-695: return False, or call activate()
StepSetupDiscovered ==
    /\ pc = "_setup:694"
    /\ IF SetupAfterDiscover(ret.b) = "return"
       THEN Return(PyBool(FALSE))
       ELSE Call("activate", "_setup:696") /\ UNCHANGED ret
    /\ UNCHANGED <<browserVars, controllerVars, session_count, seed_urls,
                   exitStatus, raised, calls, io, clock,
                   setups, browseVars>>

\* line 696: call wait_for_filters()
StepSetupActivated ==
    /\ pc = "_setup:696"
    /\ Call("wait_for_filters", "_setup:697")
    /\ UNCHANGED <<browserVars, controllerVars, session_count, seed_urls,
                   exitStatus, ret, raised, calls, io, clock,
                   setups, browseVars>>

\* line 697: return True
StepSetupDone ==
    /\ pc = "_setup:697"
    /\ Return(PyBool(TRUE))
    /\ UNCHANGED <<browserVars, controllerVars, session_count, seed_urls,
                   exitStatus, raised, calls, io, clock,
                   setups, browseVars>>

\* RestartBody with lines 703 and 704 swapped
RestartBody_SetupBeforeReset ==
    [p \in {"_restart", "_restart:703", "_restart:704"} |->
        CASE p = "_restart" ->
               [call |-> "browser.restart", next |-> "_restart:703"]
          [] p = "_restart:703" ->
               [call |-> "_setup", next |-> "_restart:704"]
          [] p = "_restart:704" ->
               [call |-> "controller.reset", next |-> "_restart:end"]]

\* the statements of _restart(), in order: what each calls and where it
\* continues
RestartBody ==
    [p \in {"_restart", "_restart:703", "_restart:704"} |->
        CASE p = "_restart" ->
               [call |-> "browser.restart", next |-> "_restart:703"]
          [] p = "_restart:703" ->
               [call |-> "controller.reset", next |-> "_restart:704"]
          [] p = "_restart:704" ->
               [call |-> "_setup", next |-> "_restart:end"]]

\* lines 702-704
StepRestart ==
    /\ pc \in DOMAIN RestartBody
    /\ Call(RestartBody[pc].call, RestartBody[pc].next)
    /\ calls' = IF pc = "_restart" THEN Append(calls, "_restart") ELSE calls
    /\ UNCHANGED <<browserVars, controllerVars, session_count, seed_urls,
                   exitStatus, ret, raised, io, clock,
                   setups, browseVars>>

\* _restart() returns None
StepRestartDone ==
    /\ pc = "_restart:end"
    /\ Return(PyNone)
    /\ UNCHANGED <<browserVars, controllerVars, session_count, seed_urls,
                   exitStatus, raised, calls, io, clock,
                   setups, browseVars>>

(***************************************************************************)
(* AdInfinitum.run()                                                        *)
(***************************************************************************)

\* lines 714-718: install the signal handlers, call browser.start()
StepRun ==
    /\ pc = "run"
    /\ Call("browser.start", "run:718")
    /\ UNCHANGED <<browserVars, controllerVars, session_count, seed_urls,
                   exitStatus, ret, raised, calls, io, clock,
                   setups, browseVars>>

\* ExitUnlessStarted with the result of browser.start() ignored
ExitUnlessStarted_Ignored(started) == [pc |-> "run:723", exitStatus |-> PyNone]

\* lines 718-719: sys.exit(1) when browser.start() returned False
ExitUnlessStarted(started) ==
    IF ~started THEN [pc |-> "exited", exitStatus |-> PyInt(1)]
    ELSE [pc |-> "run:723", exitStatus |-> PyNone]

StepRunStarted ==
    /\ pc = "run:718"
    /\ pc' = ExitUnlessStarted(ret.b).pc
    /\ exitStatus' = ExitUnlessStarted(ret.b).exitStatus
    /\ UNCHANGED <<stack, browserVars, controllerVars, session_count,
                   seed_urls, ret, raised, calls, io, clock,
                   setups, browseVars>>

\* lines 723-728: a new iteration of the loop; random.choice() raises
\* IndexError on an empty list, else the session is counted, the resources
\* are logged (_log_resources swallows what it raises) and _browse is called
StepRunSession ==
    /\ pc = "run:723"
    /\ session_count < MaxSessions
    /\ calls' = <<>>
    /\ io' = <<>>
    /\ IF seed_urls = <<>>
       THEN Raise /\ UNCHANGED session_count
       ELSE /\ session_count' = session_count + 1
            /\ Call("_browse", "run:730")
            /\ raised' = FALSE
            /\ UNCHANGED ret
    /\ UNCHANGED <<browserVars, controllerVars, seed_urls, exitStatus, clock,
                   setups, browseVars>>

\* lines 730-733: _setup() unless the controller is ready, then scrape_vault()
StepRunReady ==
    /\ pc = "run:730"
    /\ IF ~Ready(uuid, activated, filters_ready)
       THEN Call("_setup", "run:733")
       ELSE Call("scrape_vault", "run:736")
    /\ UNCHANGED <<browserVars, controllerVars, session_count, seed_urls,
                   exitStatus, ret, raised, calls, io, clock,
                   setups, browseVars>>

\* line 733: scrape_vault() after _setup()
StepRunScrape ==
    /\ pc = "run:733"
    /\ Call("scrape_vault", "run:736")
    /\ UNCHANGED <<browserVars, controllerVars, session_count, seed_urls,
                   exitStatus, ret, raised, calls, io, clock,
                   setups, browseVars>>

\* RestartDue counting the sessions from 0
RestartDue_OffByOne(n) == (n - 1) % SessionRestartInterval = 0

\* RestartDue with no scheduled restart at all
RestartDue_Never(n) == FALSE

\* line 736: is a scheduled restart due at the end of session n?
RestartDue(n) == n % SessionRestartInterval = 0

\* lines 736-737
StepRunInterval ==
    /\ pc = "run:736"
    /\ IF RestartDue(session_count)
       THEN Call("_restart", "run:723")
       ELSE pc' = "run:723" /\ UNCHANGED stack
    /\ UNCHANGED <<browserVars, controllerVars, session_count, seed_urls,
                   exitStatus, ret, raised, calls, io, clock,
                   setups, browseVars>>

\* ExceptBody with the controller.reset() of line 742 left out
ExceptBody_ResetOmitted ==
    [p \in {"run:741", "run:742"} |->
        [call |-> "browser.restart", next |-> "run:723"]]

\* the statements of the except block, in order
ExceptBody ==
    [p \in {"run:741", "run:742"} |->
        CASE p = "run:741" -> [call |-> "browser.restart", next |-> "run:742"]
          [] p = "run:742" -> [call |-> "controller.reset", next |-> "run:723"]]

\* lines 739-742
StepRunExcept ==
    /\ pc \in DOMAIN ExceptBody
    /\ Call(ExceptBody[pc].call, ExceptBody[pc].next)
    /\ UNCHANGED <<browserVars, controllerVars, session_count, seed_urls,
                   exitStatus, ret, raised, calls, io, clock,
                   setups, browseVars>>

\* lines 714-715: the handler run() registered for SIGINT and SIGTERM,
\* lambda s, f: sys.exit(0), runs between two steps of the thread; SystemExit
\* is no Exception, so no except clause of the program catches it and the
\* process exits; nothing on that path calls browser.stop() or quit()
StepSignal ==
    /\ pc \notin {"run", "exited"}
    /\ pc' = "exited"
    /\ exitStatus' = PyInt(0)
    /\ stack' = <<>>
    /\ raised' = FALSE
    /\ UNCHANGED <<browserVars, controllerVars, session_count, seed_urls,
                   ret, calls, io, clock,
                   setups, browseVars>>

(***************************************************************************)
(* The client of SpecUnit                                                   *)
(***************************************************************************)

ClientMethods ==
    {"browser.start", "browser.stop", "browser.restart", "browser.get",
     "browser.execute_script", "controller.reset",
     "discover_uuid", "activate", "wait_for_filters", "scrape_vault",
     "_browse", "_setup", "_restart"}

StepClientCall ==
    /\ pc = "idle"
    /\ \E m \in ClientMethods : Call(m, "idle")
    /\ calls' = <<>>
    /\ io' = <<>>
    /\ raised' = FALSE
    /\ UNCHANGED <<browserVars, controllerVars, session_count, seed_urls,
                   exitStatus, ret, clock,
                   setups, browseVars>>

(***************************************************************************)
(* browse.py: the tabs of the driver.  The handles of a driver are          *)
(* 1..MaxTabs; window_handles lists the open ones, oldest first, and the    *)
(* first one is the main tab.                                              *)
(***************************************************************************)

Range(q) == {q[i] : i \in DOMAIN q}

Last(q) == q[Len(q)]

\* the handles without h
Remove(handles, h) == SelectSeq(handles, LAMBDA x : x # h)

\* the handle of the tab window.open() opens
FreshHandle(handles) ==
    CHOOSE h \in 1..MaxTabs :
       /\ h \notin Range(handles)
       /\ \A g \in 1..MaxTabs : g \notin Range(handles) => h <= g

\* what becomes of one extra tab in ensure_main_window(): closed, or
\* switch_to.window() raised, or close() raised; the exception is passed over
\* and the tab stays
TabOutcomes == {"closed", "switch_error", "close_error"}

\* lines 81-86: the loop over handles[1:], extra being what is left of it
RECURSIVE CloseExtraTabs(_, _, _, _)
CloseExtraTabs(extra, handles, current, tab) ==
    IF extra = <<>> THEN [handles |-> handles, current |-> current]
    ELSE LET h == Head(extra)
             after ==
                CASE tab[h] = "closed" ->
                        [handles |-> Remove(handles, h), current |-> NoWindow]
                  [] tab[h] = "close_error" ->
                        [handles |-> handles, current |-> h]
                  [] tab[h] = "switch_error" ->
                        [handles |-> handles, current |-> current]
         IN  CloseExtraTabs(Tail(extra), after.handles, after.current, tab)

\* ensure_main_window(driver): e.read is the first read of window_handles,
\* e.tab[h] what becomes of the extra tab h, e.focus the second read of
\* window_handles and the switch to its first handle
EnsureMainWindow(handles, current, e) ==
    IF e.read = "error"
    THEN [ret |-> FALSE, raised |-> FALSE, handles |-> handles, current |-> current]
    ELSE LET c == CloseExtraTabs(Tail(handles), handles, current, e.tab)
         IN  IF e.focus = "ok"
             THEN [ret |-> TRUE, raised |-> FALSE,
                   handles |-> c.handles, current |-> c.handles[1]]
             ELSE [ret |-> FALSE, raised |-> FALSE,
                   handles |-> c.handles, current |-> c.current]

\* what the environment decides during one ensure_main_window() on handles;
\* a call that is never reached is given one outcome only
EnsureEnv(handles) ==
    {e \in [read : {"ok", "error"}, tab : [2..MaxTabs -> TabOutcomes],
            focus : {"ok", "error"}] :
        /\ e.read = "error" => e.focus = "ok"
        /\ \A h \in 2..MaxTabs :
              (e.read = "error" \/ h \notin Range(Tail(handles)))
                 => e.tab[h] = "closed"}

\* where the helper tab of verify_adnauseam_active() (lines 133-137) and of
\* get_adnauseam_stats() (lines 267-276) can fail: reading window_handles[0]
\* or switching to it, window.open(), reading window_handles[-1] or
\* switching to it; nowhere ("none")
HelperFailures == {"session", "open", "switch_new", "none"}

\* the helper tab: e.opened says whether window.open() opened a tab
HelperTab(handles, current, e) ==
    LET opens   == e.opened /\ Len(handles) < MaxTabs
        grown   == IF opens THEN Append(handles, FreshHandle(handles)) ELSE handles
    IN  CASE e.fail = "session"    -> [handles |-> handles, current |-> current]
          [] e.fail = "open"       -> [handles |-> handles, current |-> handles[1]]
          [] e.fail = "switch_new" -> [handles |-> grown, current |-> handles[1]]
          [] e.fail = "none"       -> [handles |-> grown, current |-> Last(grown)]

\* get_adnauseam_stats(driver) and verify_adnauseam_active(driver), as far as
\* the tabs go: the helper tab, whatever is done in it, and in the finally
\* clause ensure_main_window(); no exception leaves either
WithHelperTab(handles, current, e) ==
    LET h == HelperTab(handles, current, e)
    IN  EnsureMainWindow(h.handles, h.current, e.ensure)

HelperEnv(handles, current) ==
    {e \in [fail : HelperFailures, opened : BOOLEAN,
            ensure : EnsureEnv(<<1>> \o [i \in 1..(MaxTabs - 1) |-> i + 1])] :
        /\ e.fail \in {"session", "open"} => e.opened
        /\ e.ensure \in EnsureEnv(HelperTab(handles, current, e).handles)}

(***************************************************************************)
(* browse.py: main(), build_driver() and run_session()                      *)
(***************************************************************************)

\* an exception leaves the running function: the try block of main()
\* catches it (browse.py:556)
RaiseBrowse ==
    /\ pc' = "main:556"
    /\ stack' = <<>>
    /\ raised' = TRUE
    /\ ret' = PyNone

\* sys.exit(status): SystemExit is no Exception, so it passes the except
\* clause of main() and reaches its finally clause (browse.py:558)
SysExit(status) ==
    /\ pc' = "main:558"
    /\ stack' = <<>>
    /\ exitStatus' = PyInt(status)

\* lines 527-540
StepMain ==
    /\ pc = "main"
    /\ session_count' = 0
    /\ mainDriver' = 0
    /\ Call("build_driver", "main:540")
    /\ UNCHANGED <<mainPyVars, exitStatus, ret, raised, calls, io, quits,
                   window_handles, current_window_handle, action_count>>

\* what build_driver() can meet: webdriver.Firefox() raises; install_addon()
\* raises; the XPI is missing; none of these
BuildOutcomes == {"firefox_raises", "addon_raises", "xpi_missing", "ok"}

\* build_driver(): the driver it builds is the next one, with one tab
StepBuildDriver ==
    /\ pc = "build_driver"
    /\ \E out \in BuildOutcomes :
          \/ /\ out = "firefox_raises"
             /\ RaiseBrowse
             /\ UNCHANGED <<quits, window_handles, current_window_handle,
                            exitStatus>>
          \/ /\ out = "addon_raises"
             /\ RaiseBrowse
             /\ quits' = Append(quits, 0)
             /\ window_handles' = <<1>>
             /\ current_window_handle' = 1
             /\ UNCHANGED exitStatus
          \/ /\ out = "xpi_missing"
             /\ SysExit(1)
             /\ quits' = Append(quits, 1)
             /\ window_handles' = <<>>
             /\ current_window_handle' = NoWindow
             /\ UNCHANGED <<ret, raised>>
          \/ /\ out = "ok"
             /\ \E e \in HelperEnv(<<1>>, 1) :
                  LET r == WithHelperTab(<<1>>, 1, e)
                  IN  /\ window_handles' = r.handles
                      /\ current_window_handle' = r.current
             /\ quits' = Append(quits, 0)
             /\ Return(PyInt(Len(quits) + 1))
             /\ UNCHANGED <<exitStatus, raised>>
    /\ UNCHANGED <<mainPyVars, session_count, calls, io, mainDriver,
                   action_count>>

\* lines 540 and 550: driver = build_driver()
StepMainBuilt ==
    /\ pc \in {"main:540", "main:550"}
    /\ mainDriver' = ret.n
    /\ pc' = "main:543"
    /\ UNCHANGED <<mainPyVars, stack, session_count, exitStatus, ret, raised,
                   calls, io, quits, window_handles, current_window_handle,
                   action_count>>

\* lines 543-545: the next session
StepMainSession ==
    /\ pc = "main:543"
    /\ session_count < MaxSessions
    /\ session_count' = session_count + 1
    /\ Call("run_session", "main:547")
    /\ calls' = <<>>
    /\ UNCHANGED <<mainPyVars, exitStatus, ret, raised, io, browseVars>>

\* line 547
RestartEveryDue(count) == count % RestartEvery = 0

\* lines 547-554: the scheduled restart quits the driver, whether or not
\* quit() raises, and builds the next one
StepMainRestart ==
    /\ pc = "main:547"
    /\ IF RestartEveryDue(session_count)
       THEN /\ quits' = [quits EXCEPT ![mainDriver] = @ + 1]
            /\ window_handles' = <<>>
            /\ current_window_handle' = NoWindow
            /\ \E quitOut \in {"ok", "error"} :
                 IF quitOut = "error" THEN RaiseBrowse
                 ELSE Call("build_driver", "main:550") /\ UNCHANGED <<ret, raised>>
       ELSE /\ pc' = "main:543"
            /\ UNCHANGED <<stack, ret, raised, quits, window_handles,
                           current_window_handle>>
    /\ UNCHANGED <<mainPyVars, session_count, exitStatus, calls, io,
                   mainDriver, action_count>>

\* lines 556-557: except Exception logs the error
StepMainExcept ==
    /\ pc = "main:556"
    /\ pc' = "main:558"
    /\ UNCHANGED <<mainPyVars, stack, session_count, exitStatus, ret, raised,
                   calls, io, browseVars>>

\* lines 558-561: the finally clause quits the driver main() holds, and the
\* process ends: with the status of sys.exit(), with 0 after the except
\* clause, with 1 when quit() raises here
StepMainFinally ==
    /\ pc = "main:558"
    /\ pc' = "exited"
    /\ IF mainDriver # 0
       THEN /\ quits' = [quits EXCEPT ![mainDriver] = @ + 1]
            /\ window_handles' = <<>>
            /\ current_window_handle' = NoWindow
            /\ \E quitOut \in {"ok", "error"} :
                 exitStatus' = IF quitOut = "error" THEN PyInt(1)
                               ELSE IF exitStatus = PyNone THEN PyInt(0)
                               ELSE exitStatus
       ELSE /\ exitStatus' = IF exitStatus = PyNone THEN PyInt(0) ELSE exitStatus
            /\ UNCHANGED <<quits, window_handles, current_window_handle>>
    /\ UNCHANGED <<mainPyVars, stack, session_count, ret, raised, calls, io,
                   mainDriver, action_count>>

\* lines 522-524: shutdown_handler, registered at lines 528-529, runs between
\* two steps of main()
StepShutdownHandler ==
    /\ pc \notin {"main", "main:558", "exited"}
    /\ SysExit(0)
    /\ UNCHANGED <<mainPyVars, session_count, ret, raised, calls, io,
                   browseVars>>

\* ensure_main_window(driver)
StepEnsureMainWindow ==
    /\ pc = "ensure_main_window"
    /\ \E e \in EnsureEnv(window_handles) :
         LET r == EnsureMainWindow(window_handles, current_window_handle, e)
         IN  /\ window_handles' = r.handles
             /\ current_window_handle' = r.current
             /\ Return(PyBool(r.ret))
    /\ calls' = Append(calls, "ensure_main_window")
    /\ UNCHANGED <<mainPyVars, session_count, exitStatus, raised, io,
                   mainDriver, quits, action_count>>

\* line 439
StepRunSessionStart ==
    /\ pc = "run_session"
    /\ Call("ensure_main_window", "run_session:439")
    /\ UNCHANGED <<mainPyVars, session_count, exitStatus, ret, raised, calls,
                   io, browseVars>>

\* lines 439-454: the session is skipped unless the window state is clean;
\* then driver.get(url) and driver.title, and the session ends here when
\* either raises WebDriverException
StepRunSessionNavigate ==
    /\ pc = "run_session:439"
    /\ IF ~ret.b
       THEN Return(PyNone) /\ UNCHANGED <<calls, action_count>>
       ELSE /\ calls' = Append(calls, "driver.get")
            /\ \E navOut \in {"ok", "error"} :
                 IF navOut = "error"
                 THEN Return(PyNone) /\ UNCHANGED action_count
                 ELSE /\ pc' = "run_session:464"
                      /\ action_count' = 0
                      /\ UNCHANGED <<stack, ret>>
    /\ UNCHANGED <<mainPyVars, session_count, exitStatus, raised, io,
                   mainDriver, quits, window_handles, current_window_handle>>

\* the actions of line 469
Actions == {"scroll", "idle", "navigate_back"}

\* lines 464-495: one turn of the action loop, or its end at the deadline;
\* driver.current_url (line 486) is read outside any try block
StepRunSessionAction ==
    /\ pc = "run_session:464"
    /\ \E deadline \in BOOLEAN :
         IF deadline \/ action_count = MaxActions
         THEN /\ pc' = "run_session:502"
              /\ UNCHANGED <<stack, ret, raised, calls, action_count>>
         ELSE \E action \in Actions, urlOut \in {"ok", "error"} :
                 /\ action # "navigate_back" => urlOut = "ok"
                 /\ action_count' = action_count + 1
                 /\ calls' = Append(calls, action)
                 /\ IF urlOut = "error" THEN RaiseBrowse
                    ELSE pc' = "run_session:464" /\ UNCHANGED <<stack, ret, raised>>
    /\ UNCHANGED <<mainPyVars, session_count, exitStatus, io, mainDriver,
                   quits, window_handles, current_window_handle>>

\* AfterLoop without the statement of line 519
AfterLoop_NoStats ==
    [p \in {"run_session:502"} |->
        [call |-> "check_adnauseam_on_page", next |-> "return"]]

\* lines 502-519: what run_session() calls once the loop has ended
AfterLoop ==
    [p \in {"run_session:502", "run_session:519"} |->
        CASE p = "run_session:502" ->
                [call |-> "check_adnauseam_on_page", next |-> "run_session:519"]
          [] p = "run_session:519" ->
                [call |-> "get_adnauseam_stats", next |-> "return"]]

\* check_adnauseam_on_page(driver) (lines 214-256, no exception leaves it) and
\* get_adnauseam_stats(driver) (lines 259-376), then the return of line 519
StepRunSessionAfterLoop ==
    /\ pc \in DOMAIN AfterLoop
    /\ calls' = Append(calls, AfterLoop[pc].call)
    /\ IF AfterLoop[pc].call = "get_adnauseam_stats"
       THEN \E e \in HelperEnv(window_handles, current_window_handle) :
               LET r == WithHelperTab(window_handles, current_window_handle, e)
               IN  /\ window_handles' = r.handles
                   /\ current_window_handle' = r.current
       ELSE UNCHANGED <<window_handles, current_window_handle>>
    /\ IF AfterLoop[pc].next = "return" THEN Return(PyNone)
       ELSE pc' = AfterLoop[pc].next /\ UNCHANGED <<stack, ret>>
    /\ UNCHANGED <<mainPyVars, session_count, exitStatus, raised, io,
                   mainDriver, quits, action_count>>

(***************************************************************************)
(* Specifications                                                           *)
(***************************************************************************)

Next ==
    \/ StepRun
    \/ StepRunStarted
    \/ StepRunSession
    \/ StepRunReady
    \/ StepRunScrape
    \/ StepRunInterval
    \/ StepRunExcept
    \/ StepBrowserStart
    \/ StepBrowserRestart
    \/ StepReset
    \/ StepDiscoverUuid
    \/ StepActivate
    \/ StepScrapeVault
    \/ StepBrowse
    \/ StepWaitForFilters
    \/ StepWaitLoop
    \/ StepWaitPolled
    \/ StepSetup
    \/ StepSetupDiscovered
    \/ StepSetupActivated
    \/ StepSetupDone
    \/ StepRestart
    \/ StepRestartDone

Spec == Init /\ [][Next]_vars

\* run() with SIGINT or SIGTERM delivered at any point after the handlers
\* are registered
NextSignal ==
    \/ Next
    \/ StepSignal

SpecSignal == Init /\ [][NextSignal]_vars

\* run() where every driver call and every sleep returns: the thread takes
\* its next step as long as it has one
SpecFair == Init /\ [][Next]_vars /\ WF_vars(Next)

\* the program browse.py: main()
InitBrowse ==
    /\ pc = "main"
    /\ stack = <<>>
    /\ driver = NoDriver
    /\ driverTimeout = FreshDriverTimeout
    /\ uuid = PyNone
    /\ activated = FALSE
    /\ filters_ready = FALSE
    /\ session_count = 0
    /\ seed_urls = <<>>
    /\ exitStatus = PyNone
    /\ ret = PyNone
    /\ raised = FALSE
    /\ calls = <<>>
    /\ io = <<>>
    /\ clock = 0
    /\ setups = 0
    /\ BrowseIdle

NextBrowse ==
    \/ StepMain
    \/ StepBuildDriver
    \/ StepMainBuilt
    \/ StepMainSession
    \/ StepMainRestart
    \/ StepMainExcept
    \/ StepMainFinally
    \/ StepShutdownHandler
    \/ StepEnsureMainWindow
    \/ StepRunSessionStart
    \/ StepRunSessionNavigate
    \/ StepRunSessionAction
    \/ StepRunSessionAfterLoop

SpecBrowse == InitBrowse /\ [][NextBrowse]_vars

NextUnit ==
    \/ StepClientCall
    \/ StepBrowserStart
    \/ StepBrowserStop
    \/ StepBrowserRestart
    \/ StepBrowserGet
    \/ StepBrowserExecuteScript
    \/ StepReset
    \/ StepDiscoverUuid
    \/ StepActivate
    \/ StepScrapeVault
    \/ StepBrowse
    \/ StepWaitForFilters
    \/ StepWaitLoop
    \/ StepWaitPolled
    \/ StepSetup
    \/ StepSetupDiscovered
    \/ StepSetupActivated
    \/ StepSetupDone
    \/ StepRestart
    \/ StepRestartDone

SpecUnit == InitUnit /\ [][NextUnit]_vars

(***************************************************************************)
(* Helpers of the properties                                                *)
(***************************************************************************)

Count(q, x) == Cardinality({i \in DOMAIN q : q[i] = x})

\* the last two entries of q are a and b
EndsWith(q, a, b) ==
    Len(q) >= 2 /\ q[Len(q) - 1] = a /\ q[Len(q)] = b

\* the client's call of method m is over (it returned or raised)
ClientCallOver(m) == pc = "idle" /\ calls # <<>> /\ calls[1] = m

\* the thread is inside a _setup() the client called, or inside a method that
\* _setup() called
InClientSetup ==
    /\ stack # <<>>
    /\ \/ pc \in {"_setup", "_setup:694", "_setup:696", "_setup:697"} /\ stack = <<"idle">>
       \/ /\ Len(stack) = 2
          /\ stack[1] \in {"_setup:694", "_setup:696", "_setup:697"}
          /\ stack[2] = "idle"

\* the statements of the except block of run(), and the methods it calls
HandlerPcs ==
    {"run:741", "browser.restart", "run:742", "controller.reset", "run:723"}

(***************************************************************************)
(* C1..C10                                                                  *)
(***************************************************************************)

\* C1: under run(), once an exception has left a statement of the loop body the
\* thread is in the except block and nowhere else; the except block has called
\* browser.restart() when it reaches line 742, and browser.restart() and then
\* controller.reset() when it is back at the top of the loop; the controller is
\* then cleared, the process has not exited and the next session can start.
C1_ErrorRecovery ==
    raised =>
        /\ pc \in HandlerPcs
        /\ exitStatus = PyNone
        /\ pc = "run:742" => calls # <<>> /\ calls[Len(calls)] = "browser.restart"
        /\ pc = "run:723" =>
              /\ EndsWith(calls, "browser.restart", "controller.reset")
              /\ uuid = PyNone /\ ~activated /\ ~filters_ready
              /\ session_count < MaxSessions => ENABLED StepRunSession

\* C1 witness: an exception left the scheduled _restart() and was recovered from
C1_Witness ==
    /\ raised
    /\ pc = "run:723"
    /\ "_restart" \in Range(calls)
    /\ session_count = SessionRestartInterval

\* C2: under run(), _restart() is entered only in a session whose number is a
\* multiple of session_restart_interval, and only right after scrape_vault();
\* a session that ended without an exception has entered it once if its number
\* is such a multiple and not at all otherwise.
C2_RestartAtInterval ==
    /\ \A i \in DOMAIN calls :
          calls[i] = "_restart" =>
              /\ session_count % SessionRestartInterval = 0
              /\ i > 1 /\ calls[i - 1] = "scrape_vault"
    /\ (pc = "run:723" /\ ~raised /\ session_count >= 1) =>
          Count(calls, "_restart") =
              (IF session_count % SessionRestartInterval = 0 THEN 1 ELSE 0)

\* C2 witness: the second scheduled restart has run and the session is over
C2_Witness ==
    /\ pc = "run:723"
    /\ ~raised
    /\ session_count = 2 * SessionRestartInterval
    /\ "_restart" \in Range(calls)

\* C3: under run(), when browser.start() has returned False the next step exits
\* with status 1; the exited process has counted no session, entered no
\* method but browser.start(), holds no driver, and takes no further step.
C3_StateOnExit ==
    /\ pc = "exited" =>
          /\ exitStatus = PyInt(1)
          /\ session_count = 0
          /\ calls = <<"browser.start">>
          /\ driver = NoDriver
    /\ exitStatus # PyNone => pc = "exited"

C3_ExitWhenStartFails ==
    /\ []C3_StateOnExit
    /\ [][(pc = "run:718" /\ ~ret.b) => (pc' = "exited" /\ session_count' = 0)]_vars
    /\ [][pc # "exited"]_vars

\* C3 witness: the process has exited
C3_Witness == pc = "exited" /\ ret = PyBool(FALSE)

\* C4: whatever the client calls, ready is True exactly when _uuid is a
\* non-empty string and _activated and _filters_ready are both True; it is
\* False on the object as constructed.
C4_ReadyIffAllThree ==
    /\ Ready(uuid, activated, filters_ready) <=>
          (uuid.type = "str" /\ uuid.s # "" /\ activated /\ filters_ready)
    /\ (pc = "idle" /\ calls = <<>>) => ~Ready(uuid, activated, filters_ready)

\* C4 witness: a client call left the controller ready
C4_Witness == pc = "idle" /\ Ready(uuid, activated, filters_ready)

\* C5: whatever state the client calls it in, the step of reset() leaves _uuid
\* None and both flags False, so ready is False; it makes no interaction and
\* leaves the driver, its timeout, the session count and the seed URLs alone.
C5_ResetClearsOnlyController ==
    [][pc = "controller.reset" =>
          /\ uuid' = PyNone /\ activated' = FALSE /\ filters_ready' = FALSE
          /\ ~Ready(uuid', activated', filters_ready')
          /\ io' = <<>>
          /\ UNCHANGED <<driver, driverTimeout, session_count, seed_urls,
                         exitStatus, raised>>]_vars

\* C5 witness: reset() is about to run on a ready controller with a driver
C5_Witness ==
    /\ pc = "controller.reset"
    /\ Ready(uuid, activated, filters_ready)
    /\ driver = Firefox

\* the methods of calls, without the polls of wait_for_filters()
IsMethodCall(c) == c # "_get_filter_count"

MethodCalls == SelectSeq(calls, IsMethodCall)

SetupSteps == <<"_setup", "discover_uuid", "activate", "wait_for_filters">>

\* C6: when a client's _setup() is over and discover_uuid() returned True
\* (which it does exactly when it leaves _uuid truthy, lines 392-405), the
\* methods entered are _setup, discover_uuid, activate, wait_for_filters, in
\* this order and once each, and _setup() has returned True.
C6_SetupRunsAllSteps ==
    (ClientCallOver("_setup") /\ Truthy(uuid)) =>
        /\ MethodCalls = SetupSteps
        /\ ret = PyBool(TRUE)

\* C6, for the calls of _setup() that no exception leaves: this much holds
C6_SetupRunsAllStepsUnlessRaised ==
    (ClientCallOver("_setup") /\ Truthy(uuid) /\ ~raised) =>
        /\ MethodCalls = SetupSteps
        /\ ret = PyBool(TRUE)

\* C7: when discover_uuid() has returned False to a _setup() the client
\* called, the next step returns False from _setup() with nothing entered but
\* _setup and discover_uuid; no step of _setup() up to there changes
\* _activated or _filters_ready.
C7_SetupStopsWithoutUuid ==
    /\ [][(pc = "_setup:694" /\ stack = <<"idle">> /\ ~ret.b) =>
             /\ pc' = "idle"
             /\ ret' = PyBool(FALSE)
             /\ calls' = <<"_setup", "discover_uuid">>
             /\ UNCHANGED <<activated, filters_ready, raised>>]_vars
    /\ [][(InClientSetup /\ pc \in {"_setup", "discover_uuid"}) =>
             UNCHANGED <<activated, filters_ready>>]_vars
    /\ []((ClientCallOver("_setup") /\ ~Truthy(uuid)) =>
             (calls = <<"_setup", "discover_uuid">> /\ ret = PyBool(FALSE)))

\* C7 witness: _setup() has returned False after a failed discovery on a
\* running browser
C7_Witness ==
    /\ ClientCallOver("_setup")
    /\ calls = <<"_setup", "discover_uuid">>
    /\ ret = PyBool(FALSE)
    /\ driver = Firefox
    /\ io # <<>>

\* C8: every step of a _setup() the client called on a ready controller makes
\* no interaction (no prefs.js read, no navigation, no script, no sleep),
\* starts no poll, raises nothing and leaves the controller and the browser as
\* they are; the step that ends it returns True.  (A _setup() called on a ready
\* controller is ready and without interaction at its first step, and by this
\* property at every later one.)
C8_SetupWhenReadyIsNoOp ==
    [][(/\ InClientSetup
        /\ Ready(uuid, activated, filters_ready)
        /\ io = <<>>
        /\ "_get_filter_count" \notin Range(calls)) =>
          /\ io' = <<>>
          /\ UNCHANGED <<controllerVars, browserVars, raised>>
          /\ pc' # "wait_loop"
          /\ "_get_filter_count" \notin Range(calls')
          /\ pc' = "idle" => (ret' = PyBool(TRUE) /\ calls' = SetupSteps)]_vars

\* C8 witness: inside _setup() on a controller that was ready when it was
\* called (discover_uuid() changes neither flag), with a driver attached
C8_Witness ==
    /\ pc = "_setup:694"
    /\ stack = <<"idle">>
    /\ Ready(uuid, activated, filters_ready)
    /\ driver = Firefox

\* C9: under run() with a seed URL to visit, whenever the browser is about to
\* be restarted, _setup() has been called exactly once since the browser was
\* last started or restarted.
C9_SetupOncePerStart ==
    (pc = "browser.restart" /\ seed_urls # <<>>) => setups = 1

\* C10: when a client's _restart() is over, the first methods entered are
\* _restart, browser.restart, controller.reset, _setup, in this order, and each
\* of the three was entered once; the _setup() that _restart() calls starts
\* with _uuid None and both flags False.
C10_RestartOrder ==
    /\ ClientCallOver("_restart") =>
          /\ Len(calls) >= 4
          /\ SubSeq(calls, 1, 4) =
                <<"_restart", "browser.restart", "controller.reset", "_setup">>
          /\ Count(calls, "browser.restart") = 1
          /\ Count(calls, "controller.reset") = 1
          /\ Count(calls, "_setup") = 1
    /\ (pc = "_setup" /\ stack # <<>> /\ Head(stack) = "_restart:end") =>
          (uuid = PyNone /\ ~activated /\ ~filters_ready)

\* C10 witness: _restart() has returned and its _setup() made the controller
\* ready
C10_Witness ==
    /\ ClientCallOver("_restart")
    /\ ~raised
    /\ Ready(uuid, activated, filters_ready)

(***************************************************************************)
(* C11..C20                                                                 *)
(***************************************************************************)

\* the names of the interactions of q, in order
EvNames(q) == [i \in DOMAIN q |-> q[i].ev]

\* C11: a discover_uuid() called without a UUID reads prefs.js first and once;
\* when prefs.js yields a non-empty UUID that is all it does (no timeout set,
\* no navigation, no sleep, no script), _uuid is the prefs value and it returns
\* True; otherwise what follows the prefs lookup is one run of
\* _uuid_from_debugger() (at most one navigation, one sleep, one script), and
\* a non-empty result of it becomes _uuid.
C11_PrefsFirstThenDebugger ==
    /\ []((pc = "discover_uuid" /\ ~Truthy(uuid)) =>
             \A e \in DiscoverEnv :
                LET r == DiscoverUuid(uuid, driver, driverTimeout, e)
                    d == UuidFromDebugger(driver, driverTimeout, e)
                IN  IF Truthy(e.prefs)
                    THEN /\ EvNames(r.io) = <<"read_prefs">>
                         /\ r.uuid = e.prefs
                         /\ r.ret
                         /\ r.timeout = driverTimeout
                    ELSE /\ r.io = <<Ev("read_prefs", driverTimeout)>> \o d.io
                         /\ d.io # <<>>
                         /\ Truthy(d.ret) => (r.uuid = d.ret /\ r.ret))
    /\ [][(pc = "discover_uuid" /\ ~Truthy(uuid)) =>
             /\ io' # <<>>
             /\ io'[1].ev = "read_prefs"
             /\ \A n \in {"read_prefs", "get", "sleep", "execute_script"} :
                    Count(EvNames(io'), n) <= 1
             /\ uuid' = PyStr("uuid-prefs") => Len(io') = 1
             /\ uuid' # PyStr("uuid-prefs") => Len(io') > 1
             /\ ret' = PyBool(Truthy(uuid'))]_vars

\* C11 witness: discover_uuid() found the UUID on about:debugging, after
\* prefs.js had none
C11_Witness ==
    /\ ClientCallOver("discover_uuid")
    /\ uuid = PyStr("uuid-debugger")
    /\ ret = PyBool(TRUE)
    /\ EvNames(io) = <<"read_prefs", "set_page_load_timeout", "get", "sleep",
                       "execute_script">>

\* discover_uuid() has just returned v to the method that called it
DiscoverReturned(v) ==
    /\ calls # <<>>
    /\ calls[Len(calls)] = "discover_uuid"
    /\ pc \in {"idle", "_setup:694"}
    /\ ret = PyBool(v)

\* C12: when discover_uuid() has returned False, _uuid is None.
C12_UuidNoneAfterFailure ==
    DiscoverReturned(FALSE) => uuid = PyNone

\* C12, as far as it holds: after a False, _uuid is None or the empty string
C12_UuidFalsyAfterFailure ==
    DiscoverReturned(FALSE) => uuid \in {PyNone, PyStr("")}

\* C13: the step of a discover_uuid() called with a UUID returns True, makes
\* no interaction (no prefs.js read, no navigation, no sleep, no script) and
\* changes nothing of the controller or the browser; so a second
\* discover_uuid() right after a successful one returns what the first did
\* and leaves the state of the first.
C13_DiscoverOnceSetIsNoOp ==
    /\ [][(pc = "discover_uuid" /\ Truthy(uuid)) =>
             /\ ret' = PyBool(TRUE)
             /\ io' = <<>>
             /\ pc' = Head(stack)
             /\ UNCHANGED <<controllerVars, browserVars, raised, session_count,
                            seed_urls>>]_vars
    /\ [](pc = "discover_uuid" =>
             \A e \in DiscoverEnv :
                LET once  == DiscoverUuid(PyNone, driver, driverTimeout, e)
                    twice == DiscoverUuid(once.uuid, driver, once.timeout, e)
                IN  once.ret =>
                      /\ twice.ret
                      /\ twice.uuid = once.uuid
                      /\ twice.timeout = once.timeout
                      /\ twice.io = <<>>)

\* C13 witness: a client called discover_uuid() on a controller that has its
\* UUID and a driver, and it returned
C13_Witness ==
    /\ ClientCallOver("discover_uuid")
    /\ calls = <<"discover_uuid">>
    /\ io = <<>>
    /\ ret = PyBool(TRUE)
    /\ driver = Firefox

\* the options-page script of an activate() on driver drv is reached: no
\* driver call before it raised
ScriptRan(drv, e) ==
    drv # NoDriver /\ e.set1 = "ok" /\ e.set2 = "ok" /\ e.nav # "error"

\* ... and it returned a dict that has no "error" key
ScriptReturnedSettings(drv, e) ==
    /\ ScriptRan(drv, e)
    /\ e.script.type = "dict"
    /\ "error" \notin DOMAIN e.script.d

\* activate() is about to run past its guard
ActivateRuns == pc = "activate" /\ ~ActivateSkips(uuid, activated)

\* C14: an activate() that runs past its guard sets _activated and returns
\* True when the script returned a dict without an "error" key; in every other
\* case (a dict with "error", None, a non-dict, a script or a driver call that
\* raises) _activated stays False and it returns False.
C14_ActivatedIffSettingsDict ==
    ActivateRuns =>
        \A e \in ActivateEnv :
            LET r == Activate(uuid, activated, driver, driverTimeout, e)
            IN  /\ ~r.raised
                /\ IF ScriptReturnedSettings(driver, e)
                   THEN r.activated /\ r.ret
                   ELSE ~r.activated /\ ~r.ret

\* C14, as far as it holds: the flag is set exactly for such a dict, and an
\* activate() that returns returns the flag
C14_ActivatedIffSettingsDictUnlessRaised ==
    ActivateRuns =>
        \A e \in ActivateEnv :
            LET r == Activate(uuid, activated, driver, driverTimeout, e)
            IN  /\ r.activated <=> ScriptReturnedSettings(driver, e)
                /\ ~r.raised => r.ret = r.activated

\* what the options page reports for a setting that is on afterwards
SettingOn == {"already on", "activated"}

\* C15: an activate() that runs past its guard sets _activated only when the
\* script reported each of hidingAds, clickingAds and blockingMalware as
\* 'already on' or 'activated'.
C15_ActivatedOnlyIfAllOn ==
    ActivateRuns =>
        \A e \in ActivateEnv :
            Activate(uuid, activated, driver, driverTimeout, e).activated =>
                /\ ScriptReturnedSettings(driver, e)
                /\ \A k \in CoreSettings :
                      k \in DOMAIN e.script.d /\ e.script.d[k] \in SettingOn

\* C16: the step of an activate() called without a UUID, or with _activated
\* True, returns _activated (False without a UUID: _activated is never True
\* without one), makes no interaction (no timeout set, no navigation, no
\* sleep, no script) and changes nothing of the controller or the browser.
C16_ActivateSkips ==
    /\ [](activated => Truthy(uuid))
    /\ [][(pc = "activate" /\ (activated \/ ~Truthy(uuid))) =>
             /\ ret' = PyBool(activated)
             /\ ~Truthy(uuid) => ret' = PyBool(FALSE)
             /\ activated => ret' = PyBool(TRUE)
             /\ io' = <<>>
             /\ pc' = Head(stack)
             /\ UNCHANGED <<controllerVars, browserVars, raised, session_count,
                            seed_urls>>]_vars

\* C16 witness: a client's activate() on an activated controller with a driver
\* has returned
C16_Witness ==
    /\ ClientCallOver("activate")
    /\ calls = <<"activate">>
    /\ activated
    /\ ret = PyBool(TRUE)
    /\ io = <<>>
    /\ driver = Firefox

\* the statements of the polling loop of wait_for_filters()
WaitLoopPcs == {"wait_loop", "wait_loop:520"}

\* C17: the polling loop runs only with a UUID and _filters_ready False; before
\* the deadline each turn of it polls _get_filter_count(); on a poll that
\* returned a count above 0 the next step sets _filters_ready, returns True to
\* the caller and polls no more; on a poll that returned 0 it changes nothing
\* of the controller, lets at least filter_poll_interval pass and tests the
\* deadline again.
C17_FirstLoadedPollEndsWait ==
    /\ [](pc \in WaitLoopPcs => (Truthy(uuid) /\ ~filters_ready))
    /\ [][(pc = "wait_loop" /\ clock < FilterPollTimeout) =>
             calls' = Append(calls, "_get_filter_count")]_vars
    /\ [][pc = "wait_loop:520" =>
             IF ret.n > 0
             THEN /\ filters_ready'
                  /\ ret' = PyBool(TRUE)
                  /\ pc' = Head(stack)
                  /\ pc' \notin WaitLoopPcs
                  /\ UNCHANGED <<calls, io, uuid, activated, raised>>
             ELSE /\ pc' = "wait_loop"
                  /\ clock' >= Advance(clock, FilterPollInterval)
                  /\ UNCHANGED <<controllerVars, calls, stack, raised>>]_vars

\* C17 witness: a client's wait_for_filters() has returned True at its second
\* poll
C17_Witness ==
    /\ ClientCallOver("wait_for_filters")
    /\ calls = <<"wait_for_filters", "_get_filter_count", "_get_filter_count">>
    /\ ret = PyBool(TRUE)
    /\ filters_ready

\* C18: when a client's wait_for_filters() is over it has returned
\* _filters_ready, which is True only if a poll returned a count above 0: so
\* it has returned False, with _filters_ready False, when no poll did, and
\* True only when one did.
C18_ReturnsWhetherLoaded ==
    ClientCallOver("wait_for_filters") =>
        /\ ~raised
        /\ ret = PyBool(filters_ready)

\* C18, as far as it holds: a wait_for_filters() that returns returns
\* _filters_ready; the loop returns False only at the deadline and sets the
\* flag only on a count above 0
C18_ReturnsWhetherLoadedUnlessRaised ==
    /\ [](ClientCallOver("wait_for_filters") =>
             (~raised => ret = PyBool(filters_ready)))
    /\ [][(pc \in WaitLoopPcs /\ pc' \notin WaitLoopPcs /\ ~raised') =>
             IF pc = "wait_loop"
             THEN clock >= FilterPollTimeout /\ ret' = PyBool(FALSE)
                    /\ ~filters_ready'
             ELSE ret.n > 0 /\ ret' = PyBool(TRUE) /\ filters_ready']_vars

\* C19: the step of a wait_for_filters() called with _filters_ready True, or
\* without a UUID, returns _filters_ready (False without a UUID:
\* _filters_ready is never True without one), enters no polling loop, makes
\* no interaction and changes nothing of the controller or the browser.
C19_WaitForFiltersSkips ==
    /\ [](filters_ready => Truthy(uuid))
    /\ [][(pc = "wait_for_filters" /\ (filters_ready \/ ~Truthy(uuid))) =>
             /\ ret' = PyBool(filters_ready)
             /\ ~Truthy(uuid) => ret' = PyBool(FALSE)
             /\ filters_ready => ret' = PyBool(TRUE)
             /\ pc' = Head(stack)
             /\ calls' = Append(calls, "wait_for_filters")
             /\ io' = <<>>
             /\ UNCHANGED <<controllerVars, browserVars, raised, session_count,
                            seed_urls>>]_vars

\* C19 witness: a client's wait_for_filters() on a controller without a UUID,
\* with a driver attached, has returned
C19_Witness ==
    /\ ClientCallOver("wait_for_filters")
    /\ calls = <<"wait_for_filters">>
    /\ ~Truthy(uuid)
    /\ ret = PyBool(FALSE)
    /\ io = <<>>
    /\ driver = Firefox

\* the operations of the controller that are to contain the driver's failures
ContainingMethods == {"activate", "wait_for_filters", "scrape_vault"}

\* C20: no exception leaves activate(), wait_for_filters() or scrape_vault():
\* when a client's call of one of them is over, it has returned (activate()
\* and wait_for_filters() a bool, scrape_vault() a tuple of three strings).
C20_FailuresContained ==
    (pc = "idle" /\ calls # <<>> /\ calls[1] \in ContainingMethods) =>
        /\ ~raised
        /\ calls[1] \in {"activate", "wait_for_filters"} => ret.type = "bool"
        /\ calls[1] = "scrape_vault" => (ret.type = "tuple" /\ Len(ret.items) = 3)

\* C20, as far as it holds: a failure of a driver call of the try block is
\* contained as long as the set_page_load_timeout() of the finally block
\* returns
C20_FailuresContainedUnlessFinallyRaises ==
    /\ ActivateRuns =>
          \A e \in ActivateEnv :
             LET r == Activate(uuid, activated, driver, driverTimeout, e)
             IN  /\ r.raised <=> (driver # NoDriver /\ e.set3 = "error")
                 /\ ~ScriptReturnedSettings(driver, e) => ~r.ret
    /\ pc = "wait_loop" =>
          \A e \in FilterEnv :
             LET r == GetFilterCount(driver, driverTimeout, e)
             IN  /\ r.raised <=> (driver # NoDriver /\ e.set3 = "error")
                 /\ ~ScriptRan(driver, e) => r.ret = 0
    /\ pc = "scrape_vault" /\ Truthy(uuid) =>
          \A e \in VaultEnv :
             LET r == ScrapeVault(uuid, driver, driverTimeout, e)
             IN  /\ r.raised <=> (driver # NoDriver /\ e.set3 = "error")
                 /\ (~ScriptRan(driver, e) \/ e.script.type = "raise")
                        => r.ret = VaultPlaceholders

(***************************************************************************)
(* C21..C30                                                                 *)
(***************************************************************************)

\* the keys of the dict of the vault script, in the order of the tuple
VaultKeys == <<"clicked", "collected", "showing">>

\* the i-th component scrape_vault() is to return when the vault script
\* answered e.script: the scraped value if it is a non-empty string, else the
\* i-th placeholder
ExpectedVaultComponent(drv, e, i) ==
    IF /\ ScriptRan(drv, e)
       /\ e.script.type = "dict"
       /\ VaultKeys[i] \in DOMAIN e.script.d
       /\ e.script.d[VaultKeys[i]].type = "str"
       /\ e.script.d[VaultKeys[i]].s # ""
    THEN e.script.d[VaultKeys[i]]
    ELSE VaultPlaceholders[i]

\* scrape_vault() is about to run past its guard
ScrapeVaultRuns == pc = "scrape_vault" /\ ~ScrapeVaultSkips(uuid)

\* C21: a scrape_vault() that runs past its guard returns, whatever the
\* driver and the vault script do, a tuple of three in which each component
\* is the scraped value when that is a non-empty string and else its own
\* placeholder; all three are placeholders when the script result is None.
C21_VaultTuple ==
    ScrapeVaultRuns =>
        \A e \in VaultEnv :
            LET r == ScrapeVault(uuid, driver, driverTimeout, e)
            IN  /\ ~r.raised
                /\ Len(r.ret) = 3
                /\ \A i \in 1..3 : r.ret[i] = ExpectedVaultComponent(driver, e, i)
                /\ e.script.type = "NoneType" => r.ret = VaultPlaceholders

\* C21, as far as it holds: the tuple scrape_vault() has computed when it
\* reaches its finally block is the one the claim describes
C21_VaultTupleUnlessRaised ==
    ScrapeVaultRuns =>
        \A e \in VaultEnv :
            LET r == ScrapeVault(uuid, driver, driverTimeout, e)
            IN  /\ Len(r.ret) = 3
                /\ \A i \in 1..3 : r.ret[i] = ExpectedVaultComponent(driver, e, i)
                /\ e.script.type = "NoneType" => r.ret = VaultPlaceholders

\* C22: the step of a scrape_vault() called without a UUID (None or the empty
\* string) returns the three placeholders, makes no interaction (no timeout
\* set, no navigation, no sleep, no script), raises nothing and changes
\* nothing of the controller or the browser.
C22_ScrapeVaultSkips ==
    [][(pc = "scrape_vault" /\ ~Truthy(uuid)) =>
          /\ ret' = PyTuple(<<PyStr("clicked ?"), PyStr("? ads collected"),
                              PyStr("?")>>)
          /\ io' = <<>>
          /\ pc' = Head(stack)
          /\ UNCHANGED <<controllerVars, browserVars, raised, session_count,
                         seed_urls>>]_vars

\* C22 witness: a client's scrape_vault() on a controller whose _uuid is the
\* empty string, with a driver attached, has returned
C22_Witness ==
    /\ ClientCallOver("scrape_vault")
    /\ uuid = PyStr("")
    /\ driver = Firefox
    /\ io = <<>>
    /\ ret = PyTuple(VaultPlaceholders)

\* C23: the step of stop() leaves driver None, whatever quit() does; with a
\* driver attached quit() has been called on it once, and what it raises does
\* not leave stop(); with no driver attached stop() calls nothing and returns.
C23_StopClearsDriver ==
    /\ [](pc = "browser.stop" =>
             \A quitOut \in SetOutcomes :
                LET r == BrowserStop(driver, driverTimeout, quitOut)
                IN  /\ r.driver = NoDriver
                    /\ ~r.raised
                    /\ r.quit = (IF driver = NoDriver THEN 0 ELSE 1))
    /\ [][pc = "browser.stop" =>
             /\ driver' = NoDriver
             /\ ~raised'
             /\ ret' = PyNone
             /\ pc' = Head(stack)
             /\ EvNames(io') = (IF driver = NoDriver THEN <<>> ELSE <<"quit">>)
             /\ UNCHANGED <<controllerVars, session_count, seed_urls>>]_vars

\* C23 witness: a client's stop() on an attached driver has returned
C23_Witness ==
    /\ ClientCallOver("browser.stop")
    /\ EvNames(io) = <<"quit">>
    /\ driver = NoDriver
    /\ ~raised

\* the navigation of a get() on driver drv was made and returned
NavCompleted(drv, e) == drv # NoDriver /\ e.set2 = "ok" /\ e.nav = "ok"

\* C24: get(url) returns True exactly when a driver is attached and
\* driver.get() returned; with no driver it returns False and touches
\* nothing; when driver.get() raises TimeoutException it returns False and
\* raises nothing; any other exception of the driver leaves get().
C24_GetResult ==
    /\ [](pc = "browser.get" =>
             \A e \in GetEnv :
                LET r == BrowserGet(driver, driverTimeout, e.set2, e.nav)
                IN  /\ (r.ret /\ ~r.raised) <=> NavCompleted(driver, e)
                    /\ driver = NoDriver =>
                          (~r.ret /\ ~r.raised /\ r.io = <<>>
                             /\ r.timeout = driverTimeout)
                    /\ (driver # NoDriver /\ e.set2 = "ok" /\ e.nav = "timeout")
                          => (~r.ret /\ ~r.raised)
                    /\ (driver # NoDriver /\ (e.set2 = "error" \/ e.nav = "error"))
                          => r.raised)
    /\ [][pc = "browser.get" =>
             /\ raised' \/ (ret'.type = "bool" /\ pc' = Head(stack))
             /\ ret' = PyBool(TRUE) => "get" \in Range(EvNames(io'))
             /\ driver = NoDriver =>
                   (ret' = PyBool(FALSE) /\ ~raised' /\ io' = <<>>
                      /\ UNCHANGED driverTimeout)
             /\ UNCHANGED <<driver, controllerVars>>]_vars

\* C24 witness: a client's get() on an attached driver has returned False
\* after a navigation (the page load timed out)
C24_Witness ==
    /\ ClientCallOver("browser.get")
    /\ ret = PyBool(FALSE)
    /\ ~raised
    /\ EvNames(io) = <<"set_page_load_timeout", "get">>

\* C25: execute_script(return_type, script) returns the result of the driver
\* as it is when a driver is attached and the result is an instance of
\* return_type, and None when no driver is attached or the result is of
\* another type (null among them); what the driver raises leaves it.
C25_ExecuteScriptResult ==
    /\ [](pc = "browser.execute_script" =>
             \A return_type \in ReturnTypes, raw \in AnyScriptValues :
                LET r == BrowserExecuteScript(driver, driverTimeout,
                                              return_type, raw)
                    instance == \/ raw.type = return_type
                                \/ raw.type = "bool" /\ return_type = "int"
                IN  IF driver = NoDriver
                    THEN r.ret = PyNone /\ ~r.raised /\ r.io = <<>>
                    ELSE IF raw.type = "raise" THEN r.raised
                    ELSE /\ ~r.raised
                         /\ r.ret = (IF instance THEN raw ELSE PyNone))
    /\ [][pc = "browser.execute_script" =>
             /\ driver = NoDriver => (ret' = PyNone /\ ~raised' /\ io' = <<>>)
             /\ UNCHANGED <<browserVars, controllerVars>>]_vars

\* C25 witness: a client's execute_script() on an attached driver has
\* returned a result that is not None
C25_Witness ==
    /\ ClientCallOver("browser.execute_script")
    /\ driver = Firefox
    /\ ~raised
    /\ ret # PyNone
    /\ EvNames(io) = <<"execute_script">>

\* the list urls.json holds, <<>> when it holds none
ListInFile(file) ==
    IF file = [kind |-> "text",
               text |-> "[\"https://a.example\", \"https://b.example\"]"]
    THEN <<"https://a.example", "https://b.example">>
    ELSE <<>>

\* C26: seed_urls is what _load_urls() returned, and for every urls.json and
\* every default_urls, _load_urls() raises nothing and returns the list of
\* the file when the file exists, parses and holds a non-empty list, and
\* default_urls when the file is absent, unreadable, unparseable, or holds
\* null or an empty list.
C26_LoadUrls ==
    /\ seed_urls \in SeedUrlLists
    /\ \A file \in UrlsFiles, default_urls \in DefaultUrlLists :
          LET r == LoadUrls(file, default_urls)
          IN  /\ ~r.raised
              /\ r.ret = (IF ListInFile(file) # <<>> THEN ListInFile(file)
                          ELSE default_urls)

\* C26 witness: run() is in its first session with the list of urls.json
C26_Witness ==
    /\ pc = "run:730"
    /\ session_count = 1
    /\ seed_urls = <<"https://a.example", "https://b.example">>

\* k times the sequence q
RECURSIVE Repeat(_, _)
Repeat(q, k) == IF k = 0 THEN <<>> ELSE q \o Repeat(q, k - 1)

\* the environments of one _browse() in which no call on the driver raises
DriverObeys(cfg) ==
    {e \in BrowseEnvOf(cfg) : e.set2 = "ok" /\ e.nav # "error" /\ e.failAt = 0}

\* r is a _browse() that navigated once, then did k scroll steps for a k
\* within the scroll_steps settings, each by a distance within the scroll
\* settings, touched the heartbeat 1 + k times, and returned
BrowsedAsSet(r, cfg) ==
    /\ ~r.raised
    /\ \E k \in 0..Len(r.io) :
          /\ cfg.scroll_steps_min <= k
          /\ k <= cfg.scroll_steps_max
          /\ EvNames(r.io) = <<"set_page_load_timeout", "get", "heartbeat">>
                \o Repeat(<<"execute_script", "sleep", "heartbeat">>, k)
          /\ \A i \in DOMAIN r.io :
                r.io[i].ev = "execute_script" =>
                   /\ cfg.scroll_min <= r.io[i].scrollBy
                   /\ r.io[i].scrollBy <= cfg.scroll_max

\* C27: whenever _browse(url) is about to run on an attached driver that
\* obeys, then under every Settings validation accepts it navigates once,
\* then does k scroll steps with scroll_steps_min <= k <= scroll_steps_max,
\* each by a distance between scroll_min and scroll_max, and touches the
\* heartbeat 1 + k times.
C27_BrowseUnderValidatedSettings ==
    (pc = "_browse" /\ driver # NoDriver) =>
       \A cfg \in ValidatedScrollSettings : \A e \in DriverObeys(cfg) :
          BrowsedAsSet(Browse(driver, driverTimeout, cfg, e), cfg)

\* C27, for the settings whose minima do not exceed their maxima: the same
\* statement, and under the settings the program runs with, _browse() has
\* done so whenever it returned on an attached driver.
C27_BrowseUnderOrderedSettings ==
    /\ (pc = "_browse" /\ driver # NoDriver) =>
          \A cfg \in ValidatedScrollSettings :
             (cfg.scroll_steps_min <= cfg.scroll_steps_max
                 /\ cfg.scroll_min <= cfg.scroll_max) =>
                \A e \in DriverObeys(cfg) :
                   BrowsedAsSet(Browse(driver, driverTimeout, cfg, e), cfg)
    /\ (calls # <<>> /\ calls[Len(calls)] = "_browse" /\ ~raised
           /\ driver # NoDriver) =>
          BrowsedAsSet([raised |-> FALSE, io |-> io], ScrollSettings)

\* C28: under run() with signals, a process that exited with status 0 holds
\* no driver: the browser driver has been quit before the exit.
C28_DriverQuitOnSignal == exitStatus = PyInt(0) => driver = NoDriver

\* C28, without the quit: a signal delivered at any point after the handlers
\* are registered ends the process with status 0 in that very step, calling
\* nothing (no restart, no reset, no session) and counting no session, and
\* the exited process takes no further step; only a signal exits with 0.
C28_SignalExitsAtOnce ==
    /\ [][pc # "exited"]_vars
    /\ [][(exitStatus' = PyInt(0)) <=>
             (pc \notin {"run", "exited"} /\ pc' = "exited"
                /\ ~(pc = "run:718" /\ ~ret.b /\ exitStatus' = PyInt(1)))]_vars
    /\ [][exitStatus' = PyInt(0) =>
             UNCHANGED <<session_count, calls, io, driver, controllerVars>>]_vars

\* ensure_main_window() on handles and current under e keeps its word: no
\* exception leaves it; when it returns True only the first handle is open
\* and focused; it returns False when the handles cannot be read or the first
\* handle cannot be focused
EnsuresAsStated(handles, current, e) ==
    LET r == EnsureMainWindow(handles, current, e)
    IN  /\ ~r.raised
        /\ r.ret => (r.handles = <<handles[1]>> /\ r.current = handles[1])
        /\ (e.read = "error" \/ e.focus = "error") => ~r.ret

\* C29: whenever ensure_main_window(driver) is about to run, whatever the
\* driver answers: if it returns True, every tab but the first handle has
\* been closed and the driver is focused on the first handle; if the handles
\* cannot be read or the first handle cannot be focused, it returns False;
\* and it raises nothing.
C29_EnsureMainWindow ==
    pc = "ensure_main_window" =>
       \A e \in EnsureEnv(window_handles) :
          EnsuresAsStated(window_handles, current_window_handle, e)

\* C29, with the extra tabs only attempted: whenever ensure_main_window(driver)
\* is about to run, it raises nothing, returns True exactly when the handles
\* could be read and the first one focused, and then the driver is focused
\* on the first handle, the tabs whose close() succeeded are gone and the
\* tabs left are the first one and those whose switch or close raised.
C29_EnsureMainWindowBestEffort ==
    pc = "ensure_main_window" =>
       \A e \in EnsureEnv(window_handles) :
          LET r == EnsureMainWindow(window_handles, current_window_handle, e)
          IN  /\ ~r.raised
              /\ r.ret <=> (e.read = "ok" /\ e.focus = "ok")
              /\ r.ret =>
                    /\ r.current = window_handles[1]
                    /\ Range(r.handles) =
                          {window_handles[1]} \cup
                             {h \in Range(Tail(window_handles)) : e.tab[h] # "closed"}

\* the action loop of run_session() has ended: the statement that follows it
\* (line 502) has been entered
LoopEnded == "check_adnauseam_on_page" \in Range(calls)

\* run_session() has just returned to main()
SessionReturned == pc = "main:547" /\ ~raised /\ exitStatus = PyNone

SessionPcs == {"run:723", "_browse", "_setup", "scrape_vault"}

\* C31: under run(), whenever a session is about to start (a seed URL is
\* about to be chosen), or to browse, to set up or to scrape the vault, the
\* BrowserManager has a driver attached.
C31_DriverAtSessionStart == pc \in SessionPcs => driver # NoDriver

\* C31, as far as it goes: the sessions begin with a driver attached (run()
\* leaves line 718 for the loop only with one), and an attached driver is
\* lost only by a browser.restart() that returns False.
C31_DriverLostOnlyByFailedRestart ==
    /\ [](pc = "run:718" /\ ret.b => driver # NoDriver)
    /\ [][(driver # NoDriver /\ driver' = NoDriver) =>
             (pc = "browser.restart" /\ ret' = PyBool(FALSE))]_vars

\* a restart inside run() failed to boot Firefox: the loop runs without a
\* driver, early enough for the model to reach the next scheduled restart
FailedBoot ==
    /\ driver = NoDriver
    /\ pc \notin {"run", "browser.start", "run:718", "exited"}
    /\ session_count + SessionRestartInterval <= MaxSessions

\* C32: under run() where every call returns, once a restart has failed to
\* boot Firefox the loop does not exit and another browser.restart(), and
\* with it another start, is eventually attempted; it is attempted at the
\* latest by the _restart() that the end of a session whose number is a
\* multiple of session_restart_interval calls.
C32_RestartRetried ==
    /\ FailedBoot ~> (pc = "browser.restart")
    /\ [](FailedBoot => exitStatus = PyNone)
    /\ [][(pc = "run:736" /\ driver = NoDriver /\ RestartDue(session_count))
             => pc' = "_restart"]_vars

\* C32 witness: the scheduled restart at the end of a session that ran
\* without a driver is about to start the browser again
C32_Witness ==
    /\ pc = "browser.restart"
    /\ driver = NoDriver
    /\ "_restart" \in Range(calls)
    /\ "_browse" \in Range(calls)

\* where run() and _restart() are between browser.restart() and the step of
\* controller.reset()
ResetPendingPcs == {"_restart:703", "run:742", "controller.reset"}

\* the controller holds nothing
ControllerCleared == uuid = PyNone /\ ~activated /\ ~filters_ready

C34_ReadinessMonotonic ==
    [][pc # "controller.reset" =>
          /\ Truthy(uuid) => uuid' = uuid
          /\ activated => activated'
          /\ filters_ready => filters_ready'
          /\ Ready(uuid, activated, filters_ready)
                => Ready(uuid', activated', filters_ready')]_vars

\* C34 witness: a controller operation has returned to the client of a
\* ready controller
C34_Witness ==
    /\ pc = "idle"
    /\ calls # <<>>
    /\ Last(calls) \in {"discover_uuid", "activate", "scrape_vault"}
    /\ Ready(uuid, activated, filters_ready)

\* the polls of the wait_for_filters() entered last: the _get_filter_count()
\* calls since
PollsOfWait ==
    Cardinality({i \in DOMAIN calls :
                    /\ calls[i] = "_get_filter_count"
                    /\ \E j \in DOMAIN calls :
                          /\ j < i
                          /\ calls[j] = "wait_for_filters"
                          /\ \A k \in (j + 1)..i : calls[k] # "wait_for_filters"})

\* ceil(a / b)
CeilDiv(a, b) == (a + b - 1) \div b

\* C35: whatever the client calls, with each sleep of wait_for_filters()
\* advancing the clock by filter_poll_interval or more: a wait_for_filters()
\* has polled at most ceil(filter_poll_timeout / filter_poll_interval) times,
\* and once the clock has reached the deadline its loop starts no poll but
\* returns False; the polls come one after the other, each returning before
\* the loop goes on.
C35_BoundedPolls ==
    /\ [](PollsOfWait <= CeilDiv(FilterPollTimeout, FilterPollInterval))
    /\ [][(pc = "wait_loop" /\ clock >= FilterPollTimeout) =>
             (calls' = calls /\ pc' = Head(stack) /\ ret' = PyBool(FALSE))]_vars
    /\ [][(pc = "wait_loop" /\ clock < FilterPollTimeout) =>
             (calls' = Append(calls, "_get_filter_count")
                /\ (pc' = "wait_loop:520" \/ raised'))]_vars

\* C35 witness: a wait_for_filters() that polled as often as it can has timed
\* out
C35_Witness ==
    /\ calls # <<>>
    /\ Last(calls) = "_get_filter_count"
    /\ PollsOfWait = CeilDiv(FilterPollTimeout, FilterPollInterval)
    /\ ret = PyBool(FALSE)
    /\ ~raised
    /\ ~filters_ready

\* the controller methods that open a moz-extension:// page
ExtensionPageMethods == {"activate", "_get_filter_count", "scrape_vault"}

\* one of them ran last, and io holds its interactions
ExtensionPageMethodRan == calls # <<>> /\ Last(calls) \in ExtensionPageMethods

\* C36: whatever the client calls, every navigation that activate(),
\* _get_filter_count() or scrape_vault() made ran under the page-load timeout
\* of 20 seconds that the method set just before.
C36_ExtensionNavigationTimeout ==
    ExtensionPageMethodRan =>
       \A i \in DOMAIN io : io[i].ev = "get" => io[i].t = ExtensionPageTimeout

\* C36, as the code has it: every such navigation ran under
\* settings.page_load_timeout, which BrowserManager.get() sets again (line
\* 216) between the method's set_page_load_timeout(20) and driver.get().
C36_NavigationUnderConfiguredTimeout ==
    ExtensionPageMethodRan =>
       \A i \in DOMAIN io :
          io[i].ev = "get" =>
             /\ io[i].t = PageLoadTimeout
             /\ i >= 3
             /\ io[i - 1] = Ev("set_page_load_timeout", PageLoadTimeout)
             /\ io[i - 2] = Ev("set_page_load_timeout", ExtensionPageTimeout)

\* activate(), wait_for_filters() (or its poll) or scrape_vault() ran last,
\* and left a driver attached
TimeoutUserRan ==
    /\ calls # <<>>
    /\ Last(calls) \in ExtensionPageMethods \cup {"wait_for_filters"}
    /\ driver # NoDriver

C37_TimeoutRestoredUnlessFinallyRaises ==
    /\ (TimeoutUserRan /\ ~raised) => driverTimeout = PageLoadTimeout
    /\ (TimeoutUserRan /\ driverTimeout # PageLoadTimeout) =>
          /\ io # <<>>
          /\ Last(io).ev = "set_page_load_timeout"
          /\ Last(io).t = driverTimeout

\* C38: under main() of browse.py, no driver that build_driver() created is
\* ever quit twice, and when the process has exited every one of them has
\* been quit exactly once.
C38_EachDriverQuitOnce ==
    /\ \A k \in DOMAIN quits : quits[k] <= 1
    /\ pc = "exited" => \A k \in DOMAIN quits : quits[k] = 1

\* C38, as the code has it: when the process has exited, the driver main()
\* held last has been quit, once or twice; every driver before it has been
\* quit exactly once; a driver that main() never held (build_driver() did not
\* return it) has been quit once where the XPI was missing and not at all
\* where install_addon() raised.
C38_HeldDriversQuit ==
    pc = "exited" =>
       \A k \in DOMAIN quits :
          /\ k < mainDriver => quits[k] = 1
          /\ k = mainDriver => quits[k] \in {1, 2}
          /\ k > mainDriver => (quits[k] \in {0, 1} /\ k = Len(quits))

\* only the main tab is open, and it is the focused one
OnlyMainTab(handles, current) == Len(handles) = 1 /\ current = handles[1]

\* C39: under main() of browse.py, whenever verify_adnauseam_active() (at the
\* end of build_driver()) or get_adnauseam_stats() has returned, only the
\* first tab is open and it is focused; and whenever run_session() is about
\* to navigate, ensure_main_window() having returned True, one tab is open.
C39_HelperTabsClosed ==
    /\ pc \in {"main:540", "main:550"} =>
          OnlyMainTab(window_handles, current_window_handle)
    /\ (pc = "main:547" /\ calls # <<>> /\ Last(calls) = "get_adnauseam_stats") =>
          OnlyMainTab(window_handles, current_window_handle)
    /\ (pc = "run_session:439" /\ ret.b) => Len(window_handles) = 1

\* the driver does all that ensure_main_window() asks of it
EnsureObeyed(e) ==
    /\ e.read = "ok"
    /\ e.focus = "ok"
    /\ \A h \in DOMAIN e.tab : e.tab[h] = "closed"

\* C39, where the driver obeys ensure_main_window(): whenever
\* get_adnauseam_stats() is about to run, then whatever fails in its helper
\* tab, if the reads, switches and closes of its final ensure_main_window()
\* succeed, it returns with only the first tab open and focused, however many
\* tabs were open before.
C39_HelperTabsClosedWhenObeyed ==
    pc = "run_session:519" =>
       \A e \in HelperEnv(window_handles, current_window_handle) :
          EnsureObeyed(e.ensure) =>
             LET r == WithHelperTab(window_handles, current_window_handle, e)
             IN  /\ r.ret
                 /\ OnlyMainTab(r.handles, r.current)
                 /\ r.handles[1] = window_handles[1]

====
